---- MODULE Spec2Model ----
(***************************************************************************)
(* Interception data plane of cheddar-proxy: the per-request state machine *)
(* (process_request), the breakpoint engine, the upstream connector with   *)
(* its HTTP/2 pool and blocklist, and the two-layer transaction store.     *)
(*                                                                         *)
(* Strings are atoms; case-insensitive comparison goes through Lower.      *)
(* Byte limits and TTLs are scaled down (the unit is noted at each one).   *)
(***************************************************************************)
EXTENDS Naturals, Integers, Sequences, FiniteSets, TLC

VARIABLES
    pc,           \* position of each request task inside process_request
    parsed,       \* ParsedRequest owned by each request task
    received,     \* the ParsedRequest as it was read from the client
    tx,           \* HttpTransaction owned by each request task
    snaps,        \* snapshots each task handed to the sink or the store, in order
    attempt,      \* 1 = first upstream attempt, 2 = the GET/HEAD retry
    conn,         \* upstream stream the task currently holds
    blockedAt,    \* what the connector's last invocation saw at its blocklist checks
    sent,         \* requests written to upstream by each task, in order
    clientResp,   \* response delivered to the client of each task
    decision,     \* what each task's one-shot decision channel delivered
    pending,      \* BreakpointManager.pending: ids with a registered sender
    events,       \* breakpoint events emitted so far
    rules,        \* BreakpointManager.rules
    ring,         \* TransactionStore.ring
    db,           \* TransactionStore.db, rows keyed by id
    lastPersist,  \* last transaction each task passed to add_transaction
    bridge,       \* state of the H1->H2 bridge task spawned for each request task
    pool,         \* UPSTREAM_POOL entry of the origin
    drivers,      \* ids of upstream H2 connections whose driver task is live
    blocklist,    \* H2_BLOCKLIST entry of the origin
    h2_enabled,   \* H2_ENABLED
    workload,     \* the traffic the clients send in this run
    socket,       \* one client connection: what arrived on it and was not read yet
    handler,      \* the connection handler task of that connection
    captured,     \* transactions created for the requests of that connection
    answered,     \* responses written to the client of that connection
    PROXY_RUNNING,       \* the flag start_proxy, stop_proxy and the server task store
    ACTIVE_SERVER_TASK,  \* the counter stop_proxy waits on
    server,       \* position of each server task spawned by start_proxy
    handlers,     \* connection-handler tasks spawned by the accept loop and still running
    refused,      \* the resume and abort calls that returned an error, by transaction id
    callers,      \* where each concurrent caller of start_proxy and stop_proxy is
    adds,         \* the add_transaction calls: where each is, what it adds, how many it made
    clearing,     \* where the clear_all call is
    added,        \* every transaction add_transaction pushed onto the ring, in order
    timing,       \* one TimingHandle, the tasks recording into it, and the snapshots taken of it
    tunnel,       \* one direction of a WebSocket tunnel: the frames on the wire, the bytes forwarded, the accumulation buffer and the messages stored
    aged,         \* a store whose transactions have start times: its ring, its table, the cutoff of the prune and what the last lookup returned
    waits,        \* the rendezvous of each paused transaction: the task awaiting the receiver, the sender kept in BreakpointManager.pending, and what the last resolve returned
    ca,           \* the two Root CA files of one storage path (0: absent, else the CA it is of) and the calls of CertManager::new on that path
    cache,        \* the ServerConfigCache of one CertManager (the keys of its map, its order queue) and the hosts server_config_for_host was called with
    api,          \* the caller of start_proxy and stop_proxy
    exchange,     \* one request/response exchange: what the two peers send, and how far it got
    record,       \* the body fields of the transaction record of that exchange
    relayed,      \* the bytes process_request wrote to the upstream and to the client
    rows,         \* the transactions table: started_at of each id in it (0 = no row)
    results       \* what the last two queries returned, in order

vars == <<pc, parsed, received, tx, snaps, attempt, conn, blockedAt, sent,
          clientResp, decision, pending, events, rules, ring, db, lastPersist,
          bridge, pool, drivers, blocklist, h2_enabled, workload,
          socket, handler, captured, answered, refused, callers, adds, clearing,
          added, timing, tunnel, aged, waits, ca, cache,
          PROXY_RUNNING, ACTIVE_SERVER_TASK, server, handlers, api,
          exchange, record, relayed, rows, results>>

\* the variables outside the request state machine
connectionVars == <<socket, handler, captured, answered>>

\* the variables of the parts modelled last, and the same without one of them
lateVars == <<added, timing, tunnel, aged, waits, ca, cache>>

lateBut_added == <<timing, tunnel, aged, waits, ca, cache>>

lateBut_timing == <<added, tunnel, aged, waits, ca, cache>>

lateBut_tunnel == <<added, timing, aged, waits, ca, cache>>

lateBut_aged == <<added, timing, tunnel, waits, ca, cache>>

lateBut_waits == <<added, timing, tunnel, aged, ca, cache>>

lateBut_ca == <<added, timing, tunnel, aged, waits, cache>>

lateBut_cache == <<added, timing, tunnel, aged, waits, ca>>

callVars == <<refused, callers, adds, clearing, lateVars>>

lifecycleVars == <<PROXY_RUNNING, ACTIVE_SERVER_TASK, server, handlers, api>>

deliveryVars == <<exchange, record, relayed>>

queryVars == <<rows, results>>

otherVars == <<connectionVars, lifecycleVars, deliveryVars, queryVars, callVars>>

---------------------------------------------------------------------------
(* Bounds *)

\* request tasks that run concurrently (connections or HTTP/2 streams)
MaxTasks == 2

Tasks == 1..MaxTasks

---------------------------------------------------------------------------
(* Program constants, scaled *)

\* 32 MiB cap on inbound bodies; unit here: bytes of the model's tiny bodies
MAX_REQUEST_BODY_BYTES == 3

\* 512 KiB capture cap, scaled with the same unit
MAX_BODY_CAPTURE_BYTES == 2

\* 300 s blocklist TTL, in clock ticks
H2_BLOCKLIST_TTL == 2

\* 30 s pool TTL, in clock ticks
H2_POOL_TTL == 1

\* ring size of the store (10 000 in the program)
DEFAULT_RING_SIZE == 3

\* KEEP_ALIVE_TIMEOUT_SECS, in clock ticks (30 s in the source)
KEEP_ALIVE_TIMEOUT_SECS == 2

\* MAX_HEADER_BYTES (128 KiB in the source)
MAX_HEADER_BYTES == 4

\* the buffer read_message_head reads into (4096 bytes in the source)
TempLen == 2

\* requests one client sends on one connection
MaxRequests == 3

\* server tasks start_proxy spawns in one run
MaxStarts == 2

\* connections the accept loop takes in one run
MaxHandlers == 2

\* body bytes an upstream sends in one response
MaxBody == 4

\* rows of the transactions table
MaxRows == 3

\* resume and abort calls for one transaction that return an error
MaxRefused == 2

\* concurrent callers of start_proxy and stop_proxy
MaxCallers == 2

\* add_transaction calls of one task
MaxAdds == 2

\* milliseconds a request lasts
MaxClock == 3

\* snapshots taken of one TimingHandle
MaxSnapshots == 2

\* WebSocket frames one peer sends
MaxFrames == 2

\* calls of CertManager::new on one storage path
MaxInits == 3

\* calls of server_config_for_host
MaxUses == 4

\* 256 in the source
MAX_SERVER_CONFIG_CACHE == 2

\* ACTIVE_SERVER_TASK is an AtomicU64, fetch_add and fetch_sub wrap: the
\* counter is kept modulo CounterWrap (2^64 in the source)
CounterWrap == 4

---------------------------------------------------------------------------
(* Strings *)

\* str::to_ascii_lowercase on the strings the model uses
Lower(s) ==
    CASE s = "Content-Length" -> "content-length"
      [] s = "Transfer-Encoding" -> "transfer-encoding"
      [] s = "Connection" -> "connection"
      [] s = "Proxy-Connection" -> "proxy-connection"
      [] s = "Keep-Alive" -> "keep-alive"
      [] s = "Host" -> "host"
      [] s = "EXAMPLE.com" -> "example.com"
      [] s = "/BREAK" -> "/break"
      [] s = "Close" -> "close"
      [] OTHER -> s

eq_ignore_ascii_case(a, b) == Lower(a) = Lower(b)

\* str::contains on lower-cased strings of the model
Contains(s, sub) ==
    \/ s = sub
    \/ sub = ""
    \/ s = "/break" /\ sub \in {"break", "/break"}
    \/ s = "example.com" /\ sub \in {"example", "example.com"}
    \/ s = "chunked" /\ sub = "chunked"
    \/ s = "HTTP/1.1" /\ sub = "1.1"

\* usize::to_string for the lengths that occur
NumStr == <<"1", "2", "3", "4", "5">>

to_string(n) == IF n = 0 THEN "0" ELSE NumStr[n]

\* str::parse::<usize>().ok(); -1 stands for None
parse_usize(s) ==
    IF s = "0" THEN 0
    ELSE IF \E i \in DOMAIN NumStr : NumStr[i] = s
         THEN CHOOSE i \in DOMAIN NumStr : NumStr[i] = s
         ELSE -1

\* first n elements of a sequence (slice [..n])
Take(s, n) == SubSeq(s, 1, IF n < Len(s) THEN n ELSE Len(s))

---------------------------------------------------------------------------
(* Header lists and maps.  A header is <<name, value>>; header_list is a   *)
(* sequence (duplicates kept), request_headers is the HashMap collected    *)
(* from it (exact-case keys, the last value of a key wins).                *)

RECURSIVE Retain(_, _)
\* Vec::retain(|(key, _)| !key.eq_ignore_ascii_case(name))
Retain(list, name) ==
    IF list = <<>> THEN <<>>
    ELSE IF eq_ignore_ascii_case(Head(list)[1], name)
         THEN Retain(Tail(list), name)
         ELSE <<Head(list)>> \o Retain(Tail(list), name)

\* index of the first header whose name matches, 0 when there is none
FirstIndex(list, name) ==
    IF \E i \in DOMAIN list : eq_ignore_ascii_case(list[i][1], name)
    THEN CHOOSE i \in DOMAIN list :
            /\ eq_ignore_ascii_case(list[i][1], name)
            /\ \A j \in DOMAIN list : eq_ignore_ascii_case(list[j][1], name) => i <= j
    ELSE 0

\* ParsedRequest::set_header: the first matching header is rewritten (the
\* loop breaks after it), otherwise the header is appended.
set_header(list, name, value) ==
    IF FirstIndex(list, name) = 0 THEN Append(list, <<name, value>>)
    ELSE [list EXCEPT ![FirstIndex(list, name)] = <<list[FirstIndex(list, name)][1], value>>]

\* ParsedRequest::remove_header
remove_header(list, name) == Retain(list, name)

\* ParsedRequest::sync_header_map / collect::<HashMap<_, _>>()
sync_header_map(list) ==
    [k \in {list[i][1] : i \in DOMAIN list} |->
        list[CHOOSE i \in DOMAIN list :
                /\ list[i][1] = k
                /\ \A j \in DOMAIN list : list[j][1] = k => j <= i][2]]

\* header_value: HashMap iteration order is arbitrary, so with several keys
\* that differ only in case any of their values may be the one found.
\* The result is the set of values the lookup can return (empty = None).
header_value(map, name) ==
    {map[k] : k \in {x \in DOMAIN map : eq_ignore_ascii_case(x, name)}}

---------------------------------------------------------------------------
(* Request bodies *)

NoBody == [kind |-> "None", length |-> 0, data |-> <<>>]

\* RequestBodyKind::len
body_kind_len(bk) ==
    CASE bk.kind = "None" -> 0
      [] bk.kind = "ContentLength" -> bk.length
      [] bk.kind = "Chunked" -> 0
      [] bk.kind = "Edited" -> Len(bk.data)

\* a capture that keeps the whole body
capture_body_whole(body) == body

\* capture_body / BodyCapture: at most the capture cap is kept; <<>> is None
capture_body(body) == Take(body, MAX_BODY_CAPTURE_BYTES)

---------------------------------------------------------------------------
(* RequestEdit.  An absent field is has* = FALSE.  headers is a HashMap,   *)
(* given here as the set of its <<key, value>> entries.                    *)

EmptyEdit ==
    [hasMethod |-> FALSE, method |-> "", hasPath |-> FALSE, path |-> "",
     hasHeaders |-> FALSE, headers |-> {}, hasBody |-> FALSE, body |-> <<>>]

\* is_empty that takes no edit for empty
is_empty_never(edit) == FALSE

\* RequestEdit::is_empty
is_empty(edit) ==
    /\ ~edit.hasMethod
    /\ ~edit.hasPath
    /\ ~edit.hasHeaders
    /\ ~edit.hasBody

\* the orders in which a HashMap's entries can be iterated
Orderings(S) ==
    {f \in [1..Cardinality(S) -> S] : \A i, j \in 1..Cardinality(S) : i # j => f[i] # f[j]}

\* apply_edit, body branch: remove_header("transfer-encoding") then
\* set_header("Content-Length", body_kind.len().to_string())
EditBodyHeaders(list, bk) ==
    set_header(remove_header(list, "transfer-encoding"), "Content-Length",
               to_string(body_kind_len(bk)))

\* apply_edit, path branch
EditPath(p, edit) == IF edit.hasPath THEN edit.path ELSE p.path

\* ParsedRequest::apply_edit; order is one iteration order of edit.headers
apply_edit(p, edit, order) ==
    LET list1 == IF edit.hasHeaders THEN order ELSE p.header_list
        bk1 == IF edit.hasBody
               THEN [kind |-> "Edited", length |-> 0,
                     data |-> Take(edit.body, MAX_REQUEST_BODY_BYTES)]
               ELSE p.body_kind
        list2 == IF edit.hasBody \/ p.body_kind.kind = "Edited"
                 THEN EditBodyHeaders(list1, bk1)
                 ELSE list1
    IN [p EXCEPT !.method = IF edit.hasMethod THEN edit.method ELSE p.method,
                 !.path = EditPath(p, edit),
                 !.header_list = list2,
                 !.request_headers = sync_header_map(list2),
                 !.body_kind = bk1,
                 !.buffered_body = IF edit.hasBody THEN <<>> ELSE p.buffered_body]

---------------------------------------------------------------------------
(* Writing the request to upstream *)

RECURSIVE HopByHop(_)
\* the header loop of write_request_head: Proxy-Connection and Keep-Alive
\* are skipped, every Connection header is written as "Connection: close"
HopByHop(list) ==
    IF list = <<>> THEN <<>>
    ELSE IF eq_ignore_ascii_case(Head(list)[1], "Proxy-Connection")
            \/ eq_ignore_ascii_case(Head(list)[1], "Keep-Alive")
         THEN HopByHop(Tail(list))
         ELSE IF eq_ignore_ascii_case(Head(list)[1], "Connection")
              THEN <<(<<"Connection", "close">>)>> \o HopByHop(Tail(list))
              ELSE <<Head(list)>> \o HopByHop(Tail(list))

\* write_request_head: the request line and the header block it writes
write_request_head(method, path, version, list) ==
    [method |-> method,
     path |-> path,
     version |-> IF version = "HTTP/2" THEN "HTTP/1.1" ELSE version,
     headers |-> IF FirstIndex(list, "Connection") = 0
                 THEN Append(HopByHop(list), <<"Connection", "close">>)
                 ELSE HopByHop(list)]

---------------------------------------------------------------------------
(* Requests as clients send them *)

Host == "example.com"

H(name, value) == <<name, value>>

\* The requests a client may send.  via = "h1": a request on a plain or
\* intercepted HTTP/1.1 connection; via = "h2": a stream of an intercepted
\* HTTP/2 connection.  body is what the client sends after the head.
RawRequests ==
    { [via |-> "h1", scheme |-> "https", method |-> "GET", path |-> "/break",
       headers |-> <<H("Host", Host)>>, body |-> <<>>],
      [via |-> "h1", scheme |-> "http", method |-> "GET", path |-> "/normal",
       headers |-> <<H("Host", Host), H("Proxy-Connection", "keep-alive")>>, body |-> <<>>],
      [via |-> "h1", scheme |-> "https", method |-> "POST", path |-> "/break",
       headers |-> <<H("Host", Host), H("Content-Length", "2")>>, body |-> <<1, 2>>],
      [via |-> "h1", scheme |-> "http", method |-> "POST", path |-> "/break",
       headers |-> <<H("Host", Host), H("Transfer-Encoding", "chunked")>>, body |-> <<1>>],
      [via |-> "h1", scheme |-> "http", method |-> "POST", path |-> "/normal",
       headers |-> <<H("Host", Host), H("Content-Length", "2")>>, body |-> <<1>>],
      [via |-> "h1", scheme |-> "http", method |-> "POST", path |-> "/normal",
       headers |-> <<H("Host", Host), H("Transfer-Encoding", "chunked")>>, body |-> <<1, 2, 3, 4>>],
      [via |-> "h2", scheme |-> "https", method |-> "POST", path |-> "/break",
       headers |-> <<H("content-length", "2")>>, body |-> <<1, 2>>],
      [via |-> "h2", scheme |-> "https", method |-> "GET", path |-> "/break",
       headers |-> <<>>, body |-> <<>>],
      [via |-> "h2", scheme |-> "https", method |-> "GET", path |-> "/normal",
       headers |-> <<>>, body |-> <<>>] }

\* RequestScheme::default_port
default_port(scheme) == IF scheme = "https" THEN 443 ELSE 80

\* read_http_request for a non-CONNECT request whose declared length is
\* within the cap: the ParsedRequest it returns.  cl and te are the values
\* header_value found for content-length and transfer-encoding ("" = None).
read_http_request(raw, cl, te) ==
    LET is_chunked == te # "" /\ Contains(Lower(te), "chunked")
        content_length == IF cl = "" THEN -1 ELSE parse_usize(cl)
    IN [method |-> raw.method, scheme |-> raw.scheme, host |-> Host,
        port |-> default_port(raw.scheme), path |-> raw.path, version |-> "HTTP/1.1",
        request_headers |-> sync_header_map(raw.headers),
        header_list |-> raw.headers,
        body_kind |-> IF is_chunked THEN [kind |-> "Chunked", length |-> 0, data |-> <<>>]
                      ELSE IF content_length >= 0
                           THEN [kind |-> "ContentLength", length |-> content_length,
                                 data |-> <<>>]
                           ELSE NoBody,
        buffered_body |-> raw.body,
        stream_id |-> 0]

\* handle_h2_hyper_request: the ParsedRequest built for one HTTP/2 stream.
\* The body is collected first; Content-Length is pushed when there is a
\* body (or the method is POST/PUT) and removed otherwise.
h2_parsed_request(raw, stream) ==
    LET push == raw.body # <<>> \/ raw.method \in {"POST", "PUT"}
        list == IF push
                THEN Append(raw.headers, H("Content-Length", to_string(Len(raw.body))))
                ELSE Retain(raw.headers, "Content-Length")
        base == sync_header_map(raw.headers)
        map == IF push
               THEN [k \in DOMAIN base \cup {"Content-Length"} |->
                        IF k = "Content-Length" THEN to_string(Len(raw.body)) ELSE base[k]]
               ELSE [k \in DOMAIN base \ {"Content-Length"} |-> base[k]]
    IN [method |-> raw.method, scheme |-> "https", host |-> Host, port |-> 443,
        path |-> raw.path, version |-> "HTTP/2",
        request_headers |-> map,
        header_list |-> list,
        body_kind |-> [kind |-> "Edited", length |-> 0, data |-> raw.body],
        buffered_body |-> <<>>,
        stream_id |-> stream]

\* the values a header lookup can produce, "" standing for None
Lookup(map, name) == IF header_value(map, name) = {} THEN {""} ELSE header_value(map, name)

\* every ParsedRequest the front end can hand to process_request for raw
ParsedRequests(raw, stream) ==
    IF raw.via = "h2" THEN {h2_parsed_request(raw, stream)}
    ELSE {read_http_request(raw, cl, te) :
            cl \in Lookup(sync_header_map(raw.headers), "content-length"),
            te \in Lookup(sync_header_map(raw.headers), "transfer-encoding")}

---------------------------------------------------------------------------
(* forward_request_to_upstream *)

\* The outcome of forward_request_to_upstream on p:
\*   err     "" | "too_large" (RequestBodyTooLarge) | "bad" (any other error)
\*   head    what write_request_head wrote
\*   body    the body bytes written to upstream
\*   left    parsed_request.buffered_body afterwards
forward_request_to_upstream(p) ==
    LET head == write_request_head(p.method, p.path, p.version, p.header_list)
        bk == p.body_kind
        buf == p.buffered_body
    IN CASE bk.kind = "None" ->
              [err |-> "", head |-> head, body |-> <<>>, left |-> buf]
         [] bk.kind = "ContentLength" ->
              IF bk.length > MAX_REQUEST_BODY_BYTES
              THEN [err |-> "too_large", head |-> head, body |-> <<>>, left |-> buf]
              ELSE IF bk.length = 0
              THEN [err |-> "", head |-> head, body |-> <<>>, left |-> <<>>]
              ELSE [err |-> IF Len(buf) < bk.length THEN "bad" ELSE "",
                    head |-> head,
                    body |-> Take(buf, bk.length),
                    left |-> SubSeq(buf, Len(Take(buf, bk.length)) + 1, Len(buf))]
         [] bk.kind = "Chunked" ->
              IF buf = <<>>
              THEN [err |-> "bad", head |-> head, body |-> <<>>, left |-> <<>>]
              ELSE IF Len(buf) > MAX_REQUEST_BODY_BYTES
              THEN [err |-> "too_large", head |-> head, body |-> <<>>, left |-> <<>>]
              ELSE [err |-> "", head |-> head, body |-> buf, left |-> <<>>]
         [] bk.kind = "Edited" ->
              IF Len(bk.data) > MAX_REQUEST_BODY_BYTES
              THEN [err |-> "too_large", head |-> head, body |-> <<>>, left |-> buf]
              ELSE [err |-> "", head |-> head, body |-> bk.data, left |-> buf]

---------------------------------------------------------------------------
(* Transactions and the store *)

\* HttpTransaction::new followed by the assignments at the top of
\* process_request; status 0 is None, request_body <<>> is None
NewTransaction(id, p) ==
    [id |-> id, state |-> "Pending", method |-> p.method, path |-> p.path,
     status |-> 0, request_body |-> <<>>, has_breakpoint |-> FALSE]

NoTx ==
    [id |-> 0, state |-> "", method |-> "", path |-> "", status |-> 0,
     request_body |-> <<>>, has_breakpoint |-> FALSE]

\* update_transaction_from_parsed
update_transaction_from_parsed(t, p) ==
    [t EXCEPT !.method = p.method,
              !.path = p.path,
              !.request_body = IF p.body_kind.kind = "Edited"
                               THEN capture_body(p.body_kind.data)
                               ELSE t.request_body]

RECURSIVE PopFront(_, _)
\* while ring.len() > max_len { ring.pop_front() }
PopFront(r, max_len) == IF Len(r) > max_len THEN PopFront(Tail(r), max_len) ELSE r

\* a push that never drops an entry
RingPushAll(r, t) == Append(r, t)

\* add_transaction, ring part: push_back, then drop the oldest over max_len
RingPush(r, t) == PopFront(Append(r, t), DEFAULT_RING_SIZE)

NoRow == [present |-> FALSE, method |-> "", path |-> "", status |-> 0, data |-> NoTx]

\* add_transaction, durable part: INSERT OR REPLACE keyed by id; data is
\* the serialized transaction
DbUpsert(d, t) ==
    [d EXCEPT ![t.id] = [present |-> TRUE, method |-> t.method, path |-> t.path,
                         status |-> t.status, data |-> t]]

\* TransactionStore::get_by_id: the first ring entry with the id, else the
\* row of the durable log; found = FALSE is Ok(None)
get_by_id(r, d, id) ==
    IF \E i \in DOMAIN r : r[i].id = id
    THEN [found |-> TRUE,
          tx |-> r[CHOOSE i \in DOMAIN r :
                      r[i].id = id /\ \A j \in DOMAIN r : r[j].id = id => i <= j]]
    ELSE IF d[id].present THEN [found |-> TRUE, tx |-> d[id].data]
         ELSE [found |-> FALSE, tx |-> NoTx]

---------------------------------------------------------------------------
(* Breakpoint rules *)

\* BreakpointManager::rule_matches; "" in a rule field is None
rule_matches(rule, ctx) ==
    /\ rule.enabled
    /\ rule.method # "" => rule.method = ctx.method
    /\ rule.host_contains # "" => Contains(Lower(ctx.host), Lower(rule.host_contains))
    /\ rule.path_contains # "" => Contains(Lower(ctx.path), Lower(rule.path_contains))

\* should_break that ignores the rules
should_break_always(rs, ctx) == TRUE

\* BreakpointManager::should_break
should_break(rs, ctx) == \E i \in DOMAIN rs : rule_matches(rs[i], ctx)

\* ParsedRequest::to_breakpoint_context
to_breakpoint_context(p) == [method |-> p.method, host |-> p.host, path |-> p.path]

InitialRules ==
    << [enabled |-> TRUE, method |-> "GET", host_contains |-> "", path_contains |-> "break"],
       [enabled |-> TRUE, method |-> "POST", host_contains |-> "EXAMPLE.com",
        path_contains |-> "/BREAK"],
       [enabled |-> FALSE, method |-> "", host_contains |-> "", path_contains |-> ""] >>

\* The edits a resume_breakpoint call may carry
Edits ==
    { EmptyEdit,
      [EmptyEdit EXCEPT !.hasPath = TRUE, !.path = "/edited"],
      [EmptyEdit EXCEPT !.hasBody = TRUE, !.body = <<9>>],
      [EmptyEdit EXCEPT !.hasBody = TRUE, !.body = <<9, 9, 9, 9>>],
      [EmptyEdit EXCEPT !.hasBody = TRUE, !.body = <<>>],
      [EmptyEdit EXCEPT !.hasMethod = TRUE, !.method = "PUT",
                        !.hasHeaders = TRUE,
                        !.headers = {H("Host", Host), H("Transfer-Encoding", "chunked")},
                        !.hasBody = TRUE, !.body = <<9>>] }

---------------------------------------------------------------------------
(* Upstream HTTP/2 pool and blocklist of the single origin (Host, 443).    *)
(* Instants are kept as ages in clock ticks.                               *)

NoPool == [present |-> FALSE, id |-> 0, age |-> 0]

NoBlock == [present |-> FALSE, age |-> 0]

\* entry.value().elapsed() < H2_BLOCKLIST_TTL for an existing entry
EntryFresh(bl) == bl.present /\ bl.age < H2_BLOCKLIST_TTL

\* is_h2_blocklisted that looks at H2_ENABLED only
is_h2_blocklisted_off(bl, en) == ~en

\* is_h2_blocklisted, result
is_h2_blocklisted(bl, en) == ~en \/ EntryFresh(bl)

\* is_h2_blocklisted, effect on H2_BLOCKLIST: a stale entry is removed
blocklist_after_check(bl, en) == IF ~en \/ EntryFresh(bl) THEN bl ELSE NoBlock

\* ts.elapsed() > H2_POOL_TTL for an existing pool entry
PoolEntryStale(pl) == pl.present /\ pl.age > H2_POOL_TTL

\* get_h2_client that asks only whether the sender is closed
pool_entry_usable_any_age(pl, live) == pl.present /\ pl.id \in live

\* get_h2_client, first part: the entry is usable unless it is older than
\* the pool TTL or its sender is closed
pool_entry_usable(pl, live) ==
    pl.present /\ ~(pl.age > H2_POOL_TTL) /\ pl.id \in live

\* get_h2_client, effect on the pool of the first part
pool_after_lookup(pl, live) ==
    IF pl.present /\ ~pool_entry_usable(pl, live) THEN NoPool ELSE pl

\* id of the upstream HTTP/2 connection task t opens in its attempt a
ConnId(t, a) == 2 * (t - 1) + a

NoConn == [kind |-> "None", offered |-> "", pooled |-> FALSE]

---------------------------------------------------------------------------
(* Initial state *)

NoParsed ==
    [method |-> "", scheme |-> "", host |-> "", port |-> 0, path |-> "", version |-> "",
     request_headers |-> sync_header_map(<<>>), header_list |-> <<>>, body_kind |-> NoBody,
     buffered_body |-> <<>>, stream_id |-> 0]

\* what one invocation of the connector saw: the blocklist entry fresh at
\* its first and at its second check, and an HTTP/2 handshake attempted
NoChecks == [first |-> FALSE, second |-> FALSE, h2hs |-> FALSE, stale |-> FALSE]

NoResp == [code |-> 0, body |-> ""]

\* delivered counts the decisions sent into the channel
NoDecision == [kind |-> "none", edit |-> EmptyEdit, delivered |-> 0]

\* The traffic explored: either one client request of any kind, resumed
\* with any edit, with upstream HTTP/2 enabled or not; or concurrent HTTP/2
\* GET streams resumed unedited, with upstream HTTP/2 left disabled as in
\* ProxyConfig::default.
Workloads == {"single", "streams"}

RequestsOf(w, t) ==
    IF w = "single"
    THEN IF t = 1 THEN RawRequests ELSE {}
    ELSE {r \in RawRequests : r.via = "h2" /\ r.method = "GET"}

EditsOf(w, t) == IF w = "single" THEN Edits ELSE {EmptyEdit}

RequestInit ==
    /\ pc = [t \in Tasks |-> "start"]
    /\ parsed = [t \in Tasks |-> NoParsed]
    /\ received = [t \in Tasks |-> NoParsed]
    /\ tx = [t \in Tasks |-> NoTx]
    /\ snaps = [t \in Tasks |-> <<>>]
    /\ attempt = [t \in Tasks |-> 1]
    /\ conn = [t \in Tasks |-> NoConn]
    /\ blockedAt = [t \in Tasks |-> NoChecks]
    /\ sent = [t \in Tasks |-> <<>>]
    /\ clientResp = [t \in Tasks |-> NoResp]
    /\ decision = [t \in Tasks |-> NoDecision]
    /\ pending = {}
    /\ events = [t \in Tasks |-> <<>>]
    /\ rules = InitialRules
    /\ ring = <<>>
    /\ db = [i \in Tasks |-> NoRow]
    /\ lastPersist = [t \in Tasks |-> NoTx]
    /\ bridge = [t \in Tasks |-> [a \in 1..2 |-> "none"]]
    /\ pool = NoPool
    /\ drivers = {}
    /\ blocklist = NoBlock
    /\ h2_enabled \in BOOLEAN
    /\ workload \in Workloads
    /\ workload = "streams" => ~h2_enabled

\* no client connection is being followed
NoSocket == [kind |-> "none", wire |-> <<>>, eof |-> FALSE, nsent |-> 0, may_send |-> FALSE]

NoRequest == [n |-> 0, version |-> "", headers |-> <<>>, head_len |-> 0]

NoHandler ==
    [pc |-> "exited", request_number |-> 0, keep_alive |-> FALSE, idle |-> 0,
     req |-> NoRequest, err |-> ""]

ConnectionIdle ==
    /\ socket = NoSocket
    /\ handler = NoHandler
    /\ captured = <<>>
    /\ answered = <<>>

\* the proxy was never started
LifecycleIdle ==
    /\ PROXY_RUNNING = FALSE
    /\ ACTIVE_SERVER_TASK = 0
    /\ server = [i \in 1..MaxStarts |-> "none"]
    /\ handlers = 0
    /\ api = [pc |-> "idle", last |-> "none"]

\* Option fields of the record: an empty body with has_* = FALSE is None
NoRecord ==
    [state |-> "Pending", request_body |-> <<>>,
     has_response_body |-> FALSE, response_body |-> <<>>,
     has_response_size |-> FALSE, response_size |-> 0]

NoRelayed == [request |-> <<>>, head |-> 0, body |-> <<>>]

\* no exchange is being followed
DeliveryIdle ==
    /\ exchange = [pc |-> "none"]
    /\ record = NoRecord
    /\ relayed = NoRelayed

\* an empty table that nobody queried
QueryIdle ==
    /\ rows = [id \in 1..MaxRows |-> 0]
    /\ results = <<>>

\* the parts modelled last are at rest
LateIdle ==
    /\ added = <<>>
    /\ timing = [clock |-> 1, phase |-> [p \in {"send", "waiting", "download"} |-> [recorded |-> FALSE, ms |-> 0]], writer |-> [w \in {"request", "bridge"} |-> [pc |-> "idle", phase |-> "send"]], seen |-> <<>>]
    /\ tunnel = [open |-> FALSE, closed |-> FALSE, dir |-> "", frames |-> <<>>, forwarded |-> 0, pending |-> <<>>, emitted |-> <<>>]
    /\ aged = [ring |-> <<>>, table |-> [id \in 1..MaxRows |-> [present |-> FALSE, data |-> [id |-> id, started_at |-> 0]]], cutoff |-> 0, got |-> {}]
    /\ waits = [id \in 1..MaxTasks |-> [waiter |-> "idle", entry |-> FALSE, channel |-> "none", call |-> ""]]
    /\ ca = [cert |-> 0, key |-> 0, init |-> [i \in 1..MaxInits |-> [pc |-> "idle", cert |-> 0, key |-> 0]]]
    /\ cache = [map |-> {}, order |-> <<>>, uses |-> <<>>]

\* no resume or abort call was refused; no concurrent caller is in a call;
\* nobody adds to the store or clears it
CallsIdle ==
    /\ refused = [id \in Tasks |-> <<>>]
    /\ callers = [c \in 1..MaxCallers |-> "idle"]
    /\ adds = [a \in Tasks |-> [pc |-> "idle", tx |-> NoTx, n |-> 0]]
    /\ clearing = "idle"
    /\ LateIdle

Init == RequestInit /\ ConnectionIdle /\ LifecycleIdle /\ DeliveryIdle /\ QueryIdle /\ CallsIdle

storeVars == <<ring, db, lastPersist>>

bpVars == <<decision, pending, events, rules>>

netVars == <<bridge, pool, drivers, blocklist, h2_enabled, workload, otherVars>>

connVars == <<attempt, conn, blockedAt, sent>>

Sink(t) == [via |-> "sink", tx |-> t]

Stored(t) == [via |-> "store", tx |-> t]

---------------------------------------------------------------------------
(* process_request, up to the breakpoint *)

\* process_request, lines 416-452: the transaction is created Pending and
\* published
Start(t) ==
    /\ pc[t] = "start"
    /\ \E raw \in RequestsOf(workload, t) : \E p \in ParsedRequests(raw, t) :
        /\ parsed' = [parsed EXCEPT ![t] = p]
        /\ received' = [received EXCEPT ![t] = p]
        /\ tx' = [tx EXCEPT ![t] = NewTransaction(t, p)]
        /\ snaps' = [snaps EXCEPT ![t] = Append(@, Sink(NewTransaction(t, p)))]
    /\ pc' = [pc EXCEPT ![t] = "breakpoints"]
    /\ UNCHANGED <<connVars, clientResp, bpVars, storeVars, netVars>>

\* a pause that marks the transaction Failed
PausedAsFailed(x) == [x EXCEPT !.state = "Failed", !.has_breakpoint = TRUE]

\* the transaction as maybe_pause_request marks it before pausing
Paused(x) == [x EXCEPT !.state = "Breakpointed", !.has_breakpoint = TRUE]

\* maybe_pause_request, lines 206-215: no rule matches and the request goes
\* on, or the Breakpointed snapshot is persisted and published and Hit is
\* emitted
MaybePause(t) ==
    /\ pc[t] = "breakpoints"
    /\ IF ~should_break(rules, to_breakpoint_context(parsed[t]))
       THEN /\ pc' = [pc EXCEPT ![t] = "connect"]
            /\ UNCHANGED <<tx, snaps, storeVars, events>>
       ELSE /\ tx' = [tx EXCEPT ![t] = Paused(@)]
            /\ ring' = RingPush(ring, Paused(tx[t]))
            /\ db' = DbUpsert(db, Paused(tx[t]))
            /\ lastPersist' = [lastPersist EXCEPT ![t] = Paused(tx[t])]
            /\ snaps' = [snaps EXCEPT ![t] = @ \o <<Stored(Paused(tx[t])), Sink(Paused(tx[t]))>>]
            /\ events' = [events EXCEPT ![t] = Append(@, "Hit")]
            /\ pc' = [pc EXCEPT ![t] = "register"]
    /\ UNCHANGED <<parsed, received, connVars, clientResp, decision, pending, rules, netVars>>

\* wait_for_decision, lines 166-170: the sender is registered under the id
Register(t) ==
    /\ pc[t] = "register"
    /\ pending' = pending \cup {t}
    /\ pc' = [pc EXCEPT ![t] = "waiting"]
    /\ UNCHANGED <<parsed, received, tx, snaps, connVars, clientResp, decision, events,
                   rules, storeVars, netVars>>

\* a resolve that leaves the entry in the map
removed_never(p, id) == p

\* resolve, line 182: guard.remove(transaction_id)
removed(p, id) == p \ {id}

\* resolve: Ok when the entry is there and its receiver, held by the task
\* waiting in wait_for_decision, still exists
resolve(id) ==
    IF id \notin pending THEN "No pending breakpoint"
    ELSE IF pc[id] # "waiting" THEN "Breakpoint consumer dropped"
    ELSE "ok"

\* resume_breakpoint: resolve removes the pending entry and delivers
\* Resume(edit); Resumed is emitted by the caller of resolve
ResumeBreakpoint(id) ==
    /\ resolve(id) = "ok"
    /\ \E edit \in EditsOf(workload, id) :
        /\ decision' = [decision EXCEPT ![id] = [kind |-> "Resume", edit |-> edit,
                                                 delivered |-> @.delivered + 1]]
    /\ pending' = removed(pending, id)
    /\ events' = [events EXCEPT ![id] = Append(@, "Resumed")]
    /\ UNCHANGED <<pc, parsed, received, tx, snaps, connVars, clientResp, rules,
                   storeVars, netVars>>

\* abort_breakpoint: resolve removes the pending entry and delivers Abort
AbortBreakpoint(id) ==
    /\ resolve(id) = "ok"
    /\ decision' = [decision EXCEPT ![id] = [kind |-> "Abort", edit |-> EmptyEdit,
                                             delivered |-> @.delivered + 1]]
    /\ pending' = removed(pending, id)
    /\ events' = [events EXCEPT ![id] = Append(@, "Aborted")]
    /\ UNCHANGED <<pc, parsed, received, tx, snaps, connVars, clientResp, rules,
                   storeVars, netVars>>

\* the state maybe_pause_request gives a resumed transaction
ResumedStateStuck(x) == x

\* maybe_pause_request, lines 219-220
ResumedState(x) == [x EXCEPT !.state = "Pending", !.has_breakpoint = FALSE]

\* the iteration orders of the edit's header map
EditOrders(edit) == IF edit.hasHeaders THEN Orderings(edit.headers) ELSE {<<>>}

\* maybe_pause_request, Resume arm, and the rest of handle_breakpoints: the
\* transaction goes back to Pending and is published; a non-empty edit is
\* applied, copied into the transaction and published again
DecideResume(t) ==
    /\ pc[t] = "waiting"
    /\ decision[t].kind = "Resume"
    /\ LET edit == decision[t].edit
           t1 == ResumedState(tx[t])
       IN IF is_empty(edit)
          THEN /\ tx' = [tx EXCEPT ![t] = t1]
               /\ snaps' = [snaps EXCEPT ![t] = Append(@, Sink(t1))]
               /\ UNCHANGED parsed
          ELSE \E order \in EditOrders(edit) :
               LET p2 == apply_edit(parsed[t], edit, order)
                   t2 == update_transaction_from_parsed(t1, p2)
               IN /\ parsed' = [parsed EXCEPT ![t] = p2]
                  /\ tx' = [tx EXCEPT ![t] = t2]
                  /\ snaps' = [snaps EXCEPT ![t] = @ \o <<Sink(t1), Sink(t2)>>]
    /\ events' = [events EXCEPT ![t] = Append(@, "Resumed")]
    /\ pc' = [pc EXCEPT ![t] = "connect"]
    /\ UNCHANGED <<received, connVars, clientResp, decision, pending, rules, storeVars,
                   netVars>>

\* a failure path that records the status but leaves the state as it was
FailedKeepsState(x, code) == [x EXCEPT !.status = code]

\* the transaction a failure path publishes
Failed(x, code) == [x EXCEPT !.state = "Failed", !.status = code]

\* A failure path of process_request: respond_with_status, then the
\* transaction is marked Failed and sent to the sink.  When the write to the
\* client fails, `?` returns before anything is published.
FailWith(t, wrote, code, body, x) ==
    /\ pc' = [pc EXCEPT ![t] = "done"]
    /\ IF wrote
       THEN /\ clientResp' = [clientResp EXCEPT ![t] = [code |-> code, body |-> body]]
            /\ tx' = [tx EXCEPT ![t] = Failed(x, code)]
            /\ snaps' = [snaps EXCEPT ![t] = Append(@, Sink(Failed(x, code)))]
       ELSE /\ tx' = [tx EXCEPT ![t] = x]
            /\ UNCHANGED <<clientResp, snaps>>

\* maybe_pause_request, Abort arm, and process_request lines 454-462
DecideAbort(t) ==
    /\ pc[t] = "waiting"
    /\ decision[t].kind = "Abort"
    /\ \E wrote \in BOOLEAN :
        FailWith(t, wrote, 409, "Request aborted at breakpoint", tx[t])
    /\ events' = [events EXCEPT ![t] = Append(@, "Aborted")]
    /\ UNCHANGED <<parsed, received, connVars, decision, pending, rules, storeVars,
                   netVars>>

---------------------------------------------------------------------------
(* connect_upstream *)

\* a blocklist entry whose instant lies a whole blocklist TTL back
MarkedBlockExpired == [present |-> TRUE, age |-> H2_BLOCKLIST_TTL]

\* mark_h2_failure, effect on the blocklist (the pool entry is removed too)
MarkedBlock == [present |-> TRUE, age |-> 0]

\* process_request, lines 467-487 for the first connection; for the retry
\* connection (lines 555-581) a failure leaves the head-read error standing
\* and the Err arm of lines 722-743 runs: the caller marks the failure
ConnectFailed(t) ==
    \E wrote \in BOOLEAN :
        IF attempt[t] = 1
        THEN FailWith(t, wrote, 502, "Unable to reach upstream server", tx[t])
        ELSE FailWith(t, wrote, 502, "Failed to read response", tx[t])

\* connect_upstream, lines 780-826: first blocklist check and pool lookup
ConnectUpstream(t) ==
    /\ pc[t] = "connect"
    /\ LET fresh == EntryFresh(blocklist)
           blocked == is_h2_blocklisted(blocklist, h2_enabled)
       IN IF parsed[t].scheme # "https"
          THEN /\ blockedAt' = [blockedAt EXCEPT ![t] = NoChecks]
               /\ conn' = [conn EXCEPT ![t] = NoConn]
               /\ pc' = [pc EXCEPT ![t] = "dial"]
               /\ UNCHANGED <<blocklist, pool, bridge>>
          ELSE /\ blockedAt' = [blockedAt EXCEPT ![t] =
                    [NoChecks EXCEPT !.first = fresh,
                                     !.stale = ~blocked /\ PoolEntryStale(pool)]]
               /\ blocklist' = blocklist_after_check(blocklist, h2_enabled)
               /\ IF blocked
                  THEN /\ conn' = [conn EXCEPT ![t] = NoConn]
                       /\ pc' = [pc EXCEPT ![t] = "dial"]
                       /\ UNCHANGED <<pool, bridge>>
                  ELSE /\ pool' = pool_after_lookup(pool, drivers)
                       /\ \E ready \in BOOLEAN :
                            IF pool_entry_usable(pool, drivers) /\ ready
                            THEN /\ conn' = [conn EXCEPT ![t] =
                                        [kind |-> "Bridge", offered |-> "h2,http/1.1", pooled |-> TRUE]]
                                 /\ bridge' = [bridge EXCEPT ![t][attempt[t]] = "running"]
                                 /\ pc' = [pc EXCEPT ![t] = "forward"]
                            ELSE /\ conn' = [conn EXCEPT ![t] = NoConn]
                                 /\ pc' = [pc EXCEPT ![t] = "dial"]
                                 /\ UNCHANGED bridge
    /\ UNCHANGED <<parsed, received, tx, snaps, attempt, sent, clientResp, bpVars,
                   storeVars, drivers, h2_enabled, workload, otherVars>>

\* connect_upstream, lines 830-837 and 998-1008: the TCP connection
Dial(t) ==
    /\ pc[t] = "dial"
    /\ \E ok \in BOOLEAN :
        IF ~ok
        THEN /\ ConnectFailed(t)
             /\ IF attempt[t] = 2 /\ parsed[t].scheme = "https"
                THEN pool' = NoPool /\ blocklist' = MarkedBlock
                ELSE UNCHANGED <<pool, blocklist>>
             /\ UNCHANGED conn
        ELSE /\ IF parsed[t].scheme = "https"
                THEN /\ pc' = [pc EXCEPT ![t] = "tls"]
                     /\ UNCHANGED conn
                ELSE /\ pc' = [pc EXCEPT ![t] = "forward"]
                     /\ conn' = [conn EXCEPT ![t] =
                            [kind |-> "Plain", offered |-> "", pooled |-> FALSE]]
             /\ UNCHANGED <<tx, snaps, clientResp, pool, blocklist>>
    /\ UNCHANGED <<parsed, received, attempt, blockedAt, sent, bpVars, storeVars,
                   bridge, drivers, h2_enabled, workload, otherVars>>

\* connect_upstream, lines 855-997: second blocklist check, TLS handshake
\* offering h2 and http/1.1, then HTTP/2 handshake with the driver task
\* spawned (the pool insert follows in SetH2Client); or the re-dial
\* advertising http/1.1 only; or the TLS stream
Tls(t) ==
    /\ pc[t] = "tls"
    /\ LET fresh == EntryFresh(blocklist)
           blocked == is_h2_blocklisted(blocklist, h2_enabled)
           bl2 == blocklist_after_check(blocklist, h2_enabled)
           id == ConnId(t, attempt[t])
       IN \E alpn \in {"fail", "h2", "http/1.1"} : \E ok \in BOOLEAN :
          LET h2 == alpn = "h2" /\ ~blocked
              failed == alpn = "fail" \/ ((h2 \/ blocked) /\ ~ok)
          IN /\ blockedAt' = [blockedAt EXCEPT ![t].second = fresh, ![t].h2hs = h2]
             /\ IF failed
                THEN /\ ConnectFailed(t)
                     /\ IF attempt[t] = 2
                        THEN pool' = NoPool /\ blocklist' = MarkedBlock
                        ELSE pool' = pool /\ blocklist' = bl2
                     /\ UNCHANGED <<conn, bridge, drivers>>
                ELSE /\ pc' = [pc EXCEPT ![t] = IF h2 THEN "pooling" ELSE "forward"]
                     /\ blocklist' = bl2
                     /\ UNCHANGED <<tx, snaps, clientResp>>
                     /\ IF h2
                        THEN /\ drivers' = drivers \cup {id}
                             /\ UNCHANGED pool
                             /\ bridge' = [bridge EXCEPT ![t][attempt[t]] = "running"]
                             /\ conn' = [conn EXCEPT ![t] =
                                    [kind |-> "Bridge", offered |-> "h2,http/1.1", pooled |-> FALSE]]
                        ELSE /\ conn' = [conn EXCEPT ![t] =
                                    [kind |-> "Tls",
                                     offered |-> IF blocked THEN "http/1.1" ELSE "h2,http/1.1",
                                     pooled |-> FALSE]]
                             /\ UNCHANGED <<pool, bridge, drivers>>
    /\ UNCHANGED <<parsed, received, attempt, sent, bpVars, storeVars, h2_enabled, workload, otherVars>>

\* a connect_upstream that skips the insert
set_h2_client_skipped(p, id) == p

\* UpstreamPool::set_h2_client: the entry of the origin is replaced
set_h2_client(p, id) == [present |-> TRUE, id |-> id, age |-> 0]

\* connect_upstream, lines 915-919: the sender is put into the pool after the
\* driver task was spawned, which may have ended by then
SetH2Client(t) ==
    /\ pc[t] = "pooling"
    /\ pool' = set_h2_client(pool, ConnId(t, attempt[t]))
    /\ pc' = [pc EXCEPT ![t] = "forward"]
    /\ UNCHANGED <<parsed, received, tx, snaps, connVars, clientResp, bpVars, storeVars,
                   bridge, drivers, blocklist, h2_enabled, workload, otherVars>>

---------------------------------------------------------------------------
(* process_request, from the forward to the end *)

\* process_request, lines 500-536 (first connection) and 567-580 (retry
\* connection): the request is written to the upstream stream
Forward(t) ==
    /\ pc[t] = "forward"
    /\ LET r == forward_request_to_upstream(parsed[t])
           x == IF attempt[t] = 1
                THEN [tx[t] EXCEPT !.request_body = capture_body(r.body)]
                ELSE tx[t]
       IN /\ sent' = [sent EXCEPT ![t] = Append(@,
                        [head |-> r.head, body |-> r.body, conn |-> conn[t],
                         complete |-> r.err = ""])]
          /\ parsed' = [parsed EXCEPT ![t].buffered_body = r.left]
          /\ IF r.err = ""
             THEN /\ tx' = [tx EXCEPT ![t] = x]
                  /\ pc' = [pc EXCEPT ![t] = "response"]
                  /\ UNCHANGED <<snaps, clientResp, pool, blocklist>>
             ELSE IF attempt[t] = 1
             THEN /\ \E wrote \in BOOLEAN :
                       IF r.err = "too_large"
                       THEN FailWith(t, wrote, 413, "Request body exceeds allowed size", x)
                       ELSE FailWith(t, wrote, 400, "Failed to read request body", x)
                  /\ UNCHANGED <<pool, blocklist>>
             ELSE /\ \E wrote \in BOOLEAN :
                       FailWith(t, wrote, 502, "Failed to read response", x)
                  /\ pool' = NoPool
                  /\ blocklist' = MarkedBlock
    /\ UNCHANGED <<received, attempt, conn, blockedAt, bpVars, storeVars, bridge,
                   drivers, h2_enabled, workload, otherVars>>

\* the condition of the retry, lines 543-546
should_retry(p) ==
    /\ p.method \in {"GET", "HEAD"}
    /\ body_kind_len(p.body_kind) = 0
    /\ p.scheme = "https"

\* the transaction the success arms publish
Completed(x) == [x EXCEPT !.state = "Completed", !.status = 200]

\* process_request, lines 584-721: the response head is read and the
\* response delivered; the Completed transaction is persisted and
\* published.  A failed write to the client returns before that.
ResponseOk(t) ==
    /\ pc[t] = "response"
    /\ \E wrote \in BOOLEAN :
        IF wrote
        THEN /\ clientResp' = [clientResp EXCEPT ![t] = [code |-> 200, body |-> "upstream"]]
             /\ tx' = [tx EXCEPT ![t] = Completed(@)]
             /\ ring' = RingPush(ring, Completed(tx[t]))
             /\ db' = DbUpsert(db, Completed(tx[t]))
             /\ lastPersist' = [lastPersist EXCEPT ![t] = Completed(tx[t])]
             /\ snaps' = [snaps EXCEPT ![t] =
                            @ \o <<Stored(Completed(tx[t])), Sink(Completed(tx[t]))>>]
        ELSE UNCHANGED <<clientResp, tx, snaps, storeVars>>
    /\ bridge' = [bridge EXCEPT ![t][attempt[t]] = IF @ = "running" THEN "ended" ELSE @]
    /\ pc' = [pc EXCEPT ![t] = "done"]
    /\ UNCHANGED <<parsed, received, connVars, bpVars, pool, drivers, blocklist, h2_enabled, workload, otherVars>>

\* process_request, lines 541-582 and 722-743: reading the response head
\* fails.  A first failure of a bodyless GET/HEAD over https calls the
\* connector again; otherwise the origin is marked (https), 502 is answered
\* and the Failed transaction is published.  A failing bridge task marks the
\* origin on its own, later.
ResponseErr(t) ==
    /\ pc[t] = "response"
    /\ bridge' = [bridge EXCEPT ![t][attempt[t]] = IF @ = "running" THEN "erred" ELSE @]
    /\ IF attempt[t] = 1 /\ should_retry(parsed[t])
       THEN /\ attempt' = [attempt EXCEPT ![t] = 2]
            /\ pc' = [pc EXCEPT ![t] = "connect"]
            /\ UNCHANGED <<tx, snaps, clientResp, pool, blocklist>>
       ELSE /\ \E wrote \in BOOLEAN :
                 FailWith(t, wrote, 502, "Failed to read response", tx[t])
            /\ IF parsed[t].scheme = "https"
               THEN pool' = NoPool /\ blocklist' = MarkedBlock
               ELSE UNCHANGED <<pool, blocklist>>
            /\ UNCHANGED attempt
    /\ UNCHANGED <<parsed, received, conn, blockedAt, sent, bpVars, storeVars,
                   drivers, h2_enabled, workload, otherVars>>

\* the task spawned around bridge_h1_to_hyper_upstream, lines 791-808 and
\* 922-940: on a bridge error the origin is marked
BridgeMark(t, a) ==
    /\ bridge[t][a] = "erred"
    /\ bridge' = [bridge EXCEPT ![t][a] = "ended"]
    /\ pool' = NoPool
    /\ blocklist' = MarkedBlock
    /\ UNCHANGED <<pc, parsed, received, tx, snaps, connVars, clientResp, bpVars,
                   storeVars, drivers, h2_enabled, workload, otherVars>>

\* the connection driver task, lines 893-913: a clean close removes the
\* pool entry, an error marks the origin
DriverEnd(id) ==
    /\ id \in drivers
    /\ drivers' = drivers \ {id}
    /\ pool' = NoPool
    /\ \E clean \in BOOLEAN :
        blocklist' = IF clean THEN blocklist ELSE MarkedBlock
    /\ UNCHANGED <<pc, parsed, received, tx, snaps, connVars, clientResp, bpVars,
                   storeVars, bridge, h2_enabled, workload, otherVars>>

\* time passes: the ages of the pool entry and of the blocklist entry grow
\* (they stop growing once past their TTL)
Tick ==
    /\ \/ pool.present /\ pool.age <= H2_POOL_TTL
       \/ blocklist.present /\ blocklist.age < H2_BLOCKLIST_TTL
    /\ pool' = IF pool.present /\ pool.age <= H2_POOL_TTL
               THEN [pool EXCEPT !.age = @ + 1] ELSE pool
    /\ blocklist' = IF blocklist.present /\ blocklist.age < H2_BLOCKLIST_TTL
                    THEN [blocklist EXCEPT !.age = @ + 1] ELSE blocklist
    /\ UNCHANGED <<pc, parsed, received, tx, snaps, connVars, clientResp, bpVars,
                   storeVars, bridge, drivers, h2_enabled, workload, otherVars>>

---------------------------------------------------------------------------

Next ==
    \/ \E t \in Tasks : Start(t)
    \/ \E t \in Tasks : MaybePause(t)
    \/ \E t \in Tasks : Register(t)
    \/ \E t \in Tasks : ResumeBreakpoint(t)
    \/ \E t \in Tasks : AbortBreakpoint(t)
    \/ \E t \in Tasks : DecideResume(t)
    \/ \E t \in Tasks : DecideAbort(t)
    \/ \E t \in Tasks : ConnectUpstream(t)
    \/ \E t \in Tasks : Dial(t)
    \/ \E t \in Tasks : Tls(t)
    \/ \E t \in Tasks : SetH2Client(t)
    \/ \E t \in Tasks : Forward(t)
    \/ \E t \in Tasks : ResponseOk(t)
    \/ \E t \in Tasks : ResponseErr(t)
    \/ \E t \in Tasks : \E a \in 1..2 : BridgeMark(t, a)
    \/ \E id \in drivers : DriverEnd(id)
    \/ Tick

Spec == Init /\ [][Next]_vars

\* the steps of request task t itself
TaskStep(t) ==
    \/ Start(t)
    \/ MaybePause(t)
    \/ Register(t)
    \/ DecideResume(t)
    \/ DecideAbort(t)
    \/ ConnectUpstream(t)
    \/ Dial(t)
    \/ Tls(t)
    \/ SetH2Client(t)
    \/ Forward(t)
    \/ ResponseOk(t)
    \/ ResponseErr(t)

\* Every request runs in a task of its own (tokio::spawn in
\* handle_h2_connection / handle_h2_hyper_request, one task per client
\* connection otherwise) and the runtime keeps scheduling a task that can
\* step.  Nothing obliges the user to ever resume or abort a breakpoint.
FairSpec == Init /\ [][Next]_vars /\ \A t \in Tasks : WF_vars(TaskStep(t))

---------------------------------------------------------------------------
(* Properties *)

Last(q) == q[Len(q)]

\* the state changes a request task may publish
AllowedChanges ==
    { <<"Pending", "Breakpointed">>, <<"Pending", "Completed">>, <<"Pending", "Failed">>,
      <<"Breakpointed", "Pending">>, <<"Breakpointed", "Failed">> }

\* C1: between consecutive snapshots a request task publishes or persists,
\* the state either stays or changes by one of Pending->Breakpointed,
\* Pending->Completed, Pending->Failed, Breakpointed->Pending,
\* Breakpointed->Failed; after a Completed or Failed snapshot no later
\* snapshot of the task differs from it.
C1_StateChanges ==
    \A t \in Tasks : \A i \in 1..(Len(snaps[t]) - 1) :
        LET a == snaps[t][i].tx
            b == snaps[t][i + 1].tx
        IN /\ a.state # b.state => <<a.state, b.state>> \in AllowedChanges
           /\ a.state \in {"Completed", "Failed"} => b = a

\* C1 witness: a task published Pending, Breakpointed, Pending again and
\* then Completed, the last one twice (store and sink)
C1_Witness ==
    \E t \in Tasks :
        /\ Len(snaps[t]) >= 5
        /\ \E i \in 1..(Len(snaps[t]) - 1) :
              snaps[t][i].tx.state = "Breakpointed" /\ snaps[t][i + 1].tx.state = "Pending"
        /\ snaps[t][Len(snaps[t]) - 1].tx.state = "Completed"
        /\ Last(snaps[t]).tx.state = "Completed"

\* the answers process_request generates itself on a failure
FailureCodes == {400, 409, 413, 502}

\* C2: whenever a request was answered with a proxy-generated failure
\* response (409, 413, 400, 502), get_by_id on the store returns that
\* transaction in state Failed.
C2_FailureIsStored ==
    \A t \in Tasks :
        clientResp[t].code \in FailureCodes =>
            /\ get_by_id(ring, db, t).found
            /\ get_by_id(ring, db, t).tx.state = "Failed"

\* the request of task t was aborted at its breakpoint
Aborted(t) == \E i \in DOMAIN events[t] : events[t][i] = "Aborted"

PausedStream(t) ==
    /\ parsed[t].version = "HTTP/2"
    /\ pc[t] = "waiting"
    /\ tx[t].state = "Breakpointed"
    /\ decision[t].kind = "none"

\* a stream of the intercepted HTTP/2 connection whose request has been
\* read and matches no rule
UnmatchedStream(u) ==
    /\ parsed[u].version = "HTTP/2"
    /\ pc[u] # "start"
    /\ \A i \in DOMAIN rules : ~rule_matches(rules[i], to_breakpoint_context(parsed[u]))

\* C4: while one HTTP/2 stream is paused at a breakpoint with no decision
\* delivered, every other stream of the connection that matches no rule
\* runs to the end of its request task (forwarded, response or failure
\* answered), whether or not the paused stream is ever decided.
C4_StreamsIndependent ==
    \A t \in Tasks : \A u \in Tasks \ {t} :
        (PausedStream(t) /\ UnmatchedStream(u)) ~> (pc[u] = "done")

\* C4 witness: one stream still paused while another, matching no rule,
\* has been forwarded and its response delivered
C4_Witness ==
    \E t \in Tasks : \E u \in Tasks \ {t} :
        /\ PausedStream(t)
        /\ UnmatchedStream(u)
        /\ pc[u] = "done"
        /\ clientResp[u].code = 200
        /\ Len(sent[u]) >= 1

\* the upstream stream of task t's current connector invocation is TLS
\* negotiated with ALPN http/1.1 only, not taken from the pool, and no
\* HTTP/2 handshake was attempted
Http11Only(t) ==
    /\ ~blockedAt[t].h2hs
    /\ conn[t].kind # "None" =>
          conn[t] = [kind |-> "Tls", offered |-> "http/1.1", pooled |-> FALSE]

\* C5 as stated: if the origin's blocklist entry is fresh when the
\* connector is invoked for an https request, the upstream connection is
\* negotiated with ALPN http/1.1 only, the pool entry is not used and no
\* HTTP/2 handshake is performed.
C5_FreshAtInvocation ==
    \A t \in Tasks : blockedAt[t].first => Http11Only(t)

\* C5 amended: if the origin's blocklist entry is fresh when the connector
\* is invoked for an https request and still fresh when the connector
\* checks the blocklist again after the TCP connect, the upstream
\* connection is negotiated with ALPN http/1.1 only, the pool entry is not
\* used and no HTTP/2 handshake is performed.
C5_FreshAtBothChecks ==
    \A t \in Tasks : blockedAt[t].first /\ blockedAt[t].second => Http11Only(t)

\* C5 witness: upstream HTTP/2 is enabled, the entry was fresh at both
\* checks, and the request went out over the http/1.1-only connection
C5_Witness ==
    \E t \in Tasks :
        /\ h2_enabled
        /\ blockedAt[t].first /\ blockedAt[t].second
        /\ sent[t] # <<>>
        /\ Last(sent[t]).conn = [kind |-> "Tls", offered |-> "http/1.1", pooled |-> FALSE]
        /\ conn[t] = Last(sent[t]).conn

\* the upstream stream C6 asks of the retry
ForcedHttp11 == [kind |-> "Tls", offered |-> "http/1.1", pooled |-> FALSE]

\* C6: after a failed head read of a bodyless GET/HEAD to an https origin
\* the request is written upstream at most once more, and that second
\* write goes over a newly dialed connection negotiated with http/1.1
\* only, neither a pooled nor a newly negotiated HTTP/2 connection.
C6_RetryForcedHttp11 ==
    \A t \in Tasks :
        /\ Len(sent[t]) <= 2
        /\ Len(sent[t]) = 2 => sent[t][2].conn = ForcedHttp11

\* task t was paused and has been resumed with edit e
ResumedWith(t, e) ==
    /\ decision[t].kind = "Resume"
    /\ decision[t].edit = e
    /\ pc[t] # "waiting"

\* C7: a request resumed with an empty edit keeps the method, path, header
\* list and body kind it was read with, and what is written upstream is
\* what write_request_head and the body forwarding give for the request
\* as read from the client.
C7_EmptyEditKeepsRequest ==
    \A t \in Tasks :
        ResumedWith(t, EmptyEdit) =>
            /\ parsed[t].method = received[t].method
            /\ parsed[t].path = received[t].path
            /\ parsed[t].header_list = received[t].header_list
            /\ parsed[t].body_kind = received[t].body_kind
            /\ \A i \in DOMAIN sent[t] :
                  sent[t][i].head = write_request_head(received[t].method, received[t].path,
                                        received[t].version, received[t].header_list)
            /\ sent[t] # <<>> =>
                  sent[t][1].body = forward_request_to_upstream(received[t]).body

\* C7 witness: a request with a body was resumed with the empty edit and
\* written upstream
C7_Witness ==
    \E t \in Tasks :
        /\ ResumedWith(t, EmptyEdit)
        /\ sent[t] # <<>>
        /\ sent[t][1].body # <<>>
        /\ sent[t][1].complete

\* the values of the headers named name (any case) in a written head
ValuesOf(headers, name) ==
    {headers[i][2] : i \in {j \in DOMAIN headers : eq_ignore_ascii_case(headers[j][1], name)}}

\* C8: a request resumed with an edit that sets the body goes upstream
\* with Content-Length equal to the length of the new body (truncated to
\* the cap), no Transfer-Encoding, and the new body.
C8_BodyEditFraming ==
    \A t \in Tasks : \A e \in Edits :
        ResumedWith(t, e) /\ e.hasBody /\ sent[t] # <<>> =>
            LET body == Take(e.body, MAX_REQUEST_BODY_BYTES)
                head == sent[t][1].head
            IN /\ ValuesOf(head.headers, "Content-Length") = {to_string(Len(body))}
               /\ ValuesOf(head.headers, "Transfer-Encoding") = {}
               /\ sent[t][1].body = body

\* C9: a request resumed with an edit that sets the path is written
\* upstream with the edited path, and once its task has ended the store
\* returns the transaction with the edited path.
C9_PathEdit ==
    \A t \in Tasks : \A e \in Edits :
        ResumedWith(t, e) /\ e.hasPath =>
            /\ \A i \in DOMAIN sent[t] : sent[t][i].head.path = e.path
            /\ pc[t] = "done" =>
                  /\ get_by_id(ring, db, t).found
                  /\ get_by_id(ring, db, t).tx.path = e.path

\* C10: after a transaction was persisted, get_by_id on its id returns the
\* transaction last persisted under that id.
C10_GetReturnsPersisted ==
    \A t \in Tasks :
        lastPersist[t] # NoTx =>
            /\ get_by_id(ring, db, t).found
            /\ get_by_id(ring, db, t).tx = lastPersist[t]

\* C11: the store holds at most one entry per transaction id, in the ring
\* (the durable log is keyed by id) however many snapshots were persisted.
C11_OneEntryPerId ==
    /\ \A i, j \in DOMAIN ring : ring[i].id = ring[j].id => i = j
    /\ \A id \in Tasks : db[id].present => db[id].data.id = id

\* how often the snapshots of task t go from Pending to a state in S
ExitsTo(t, S) ==
    Cardinality({i \in 1..(Len(snaps[t]) - 1) :
                    snaps[t][i].tx.state = "Pending" /\ snaps[t][i + 1].tx.state \in S})

---------------------------------------------------------------------------
(* Connection handlers: handle_connection (plain HTTP) and the HTTP/1.1    *)
(* loop of intercept_tls_stream (intercepted HTTPS).  process_request is   *)
(* taken as one step here: it creates the transaction and returns Ok or Err. *)

\* should_keep_alive; connection is what header_value found ("" = None)
should_keep_alive(version, connection) ==
    IF connection # "" /\ eq_ignore_ascii_case(connection, "close") THEN FALSE
    ELSE IF connection # "" /\ eq_ignore_ascii_case(connection, "keep-alive") THEN TRUE
    ELSE Contains(version, "1.1")

\* read_http_request, lines 1584-1590: the declared Content-Length is over
\* the cap; content_length is what header_value found ("" = None)
RequestBodyTooLarge(content_length) ==
    content_length # "" /\ parse_usize(content_length) > MAX_REQUEST_BODY_BYTES

\* the request heads a client sends
\* head_len is the length of the head up to and including the blank line
ClientHeads ==
    { [version |-> "HTTP/1.1", headers |-> <<>>, head_len |-> 2],
      [version |-> "HTTP/1.1", headers |-> <<H("Connection", "Close")>>, head_len |-> 2],
      [version |-> "HTTP/1.0", headers |-> <<>>, head_len |-> 2],
      [version |-> "HTTP/1.0", headers |-> <<H("Connection", "keep-alive")>>, head_len |-> 2],
      [version |-> "HTTP/1.1", headers |-> <<H("Content-Length", "5")>>, head_len |-> 2],
      [version |-> "HTTP/1.1", headers |-> <<>>, head_len |-> MAX_HEADER_BYTES + 1],
      [version |-> "HTTP/1.1", headers |-> <<>>, head_len |-> MAX_HEADER_BYTES + TempLen + 1] }

RECURSIVE read_message_head(_, _)

\* read_message_head on a stream that delivers a head of head_len bytes,
\* buffer bytes of it being read already: each read returns between one
\* byte and a full temp buffer; the head is complete once its last byte is
\* in, and the length check comes after the search for the end of the head.
\* The result is the set of outcomes over all sizes the reads may have.
read_message_head(buffer, head_len) ==
    UNION { IF buffer + n >= head_len THEN {"ok"}
            ELSE IF buffer + n > MAX_HEADER_BYTES THEN {"too_long"}
            ELSE read_message_head(buffer + n, head_len) :
              n \in 1..(IF head_len - buffer < TempLen THEN head_len - buffer ELSE TempLen) }

\* a request after which the client may send another on the connection
AllowsKeepAlive(r) ==
    \E c \in Lookup(sync_header_map(r.headers), "connection") :
        should_keep_alive(r.version, c)

\* the variables of the request model, which the other subsystems leave alone
requestVars ==
    <<pc, parsed, received, tx, snaps, connVars, clientResp, bpVars, storeVars,
      bridge, pool, drivers, blocklist, h2_enabled, workload>>

\* what the actions of one subsystem leave alone
nonConnectionVars == <<requestVars, lifecycleVars, deliveryVars, queryVars, callVars>>

nonLifecycleVars == <<requestVars, connectionVars, deliveryVars, queryVars, callVars>>

nonDeliveryVars == <<requestVars, connectionVars, lifecycleVars, queryVars, callVars>>

nonQueryVars == <<requestVars, connectionVars, lifecycleVars, deliveryVars, callVars>>

ConnectionInit ==
    /\ RequestInit
    /\ ~h2_enabled
    /\ workload = "single"
    /\ socket \in {[kind |-> k, wire |-> <<>>, eof |-> FALSE, nsent |-> 0,
                      may_send |-> TRUE] : k \in {"plain", "tls"}}
    /\ handler = [pc |-> "read", request_number |-> 1, keep_alive |-> FALSE, idle |-> 0,
                  req |-> NoRequest, err |-> ""]
    /\ captured = <<>>
    /\ answered = <<>>
    /\ LifecycleIdle
    /\ DeliveryIdle
    /\ QueryIdle
    /\ CallsIdle

\* the client writes one more request to the connection
ClientSend ==
    /\ socket.kind # "none"
    /\ ~socket.eof
    /\ handler.pc # "exited"
    /\ socket.nsent < MaxRequests
    /\ socket.may_send
    /\ \E h \in ClientHeads :
        socket' = [socket EXCEPT
                     !.wire = Append(@, [n |-> socket.nsent + 1, version |-> h.version,
                                         headers |-> h.headers, head_len |-> h.head_len]),
                     !.nsent = @ + 1,
                     !.may_send = AllowsKeepAlive(h)]
    /\ UNCHANGED <<handler, captured, answered, nonConnectionVars>>

\* the client closes its side
ClientClose ==
    /\ socket.kind # "none"
    /\ ~socket.eof
    /\ handler.pc # "exited"
    /\ socket' = [socket EXCEPT !.eof = TRUE]
    /\ UNCHANGED <<handler, captured, answered, nonConnectionVars>>

\* the answer a handler gives to a failed read_http_request: only on the
\* first request; handle_connection always says 400, intercept_tls_stream
\* says 413 for RequestBodyTooLarge and 400 otherwise
ReadErrorAnswer(kind, request_number, too_large) ==
    IF request_number # 1 THEN 0
    ELSE IF kind = "tls" /\ too_large THEN 413
    ELSE 400

\* read_http_request in the handler loop: read_message_head takes the head
\* and whatever else the read returned; what was read past the request
\* stays in buffered_body and is dropped with the ParsedRequest
ReadRequest ==
    /\ handler.pc = "read"
    /\ socket.wire # <<>>
    /\ LET r == Head(socket.wire)
       IN \E over \in 0..(Len(socket.wire) - 1) :
          \E cl \in Lookup(sync_header_map(r.headers), "content-length") :
          \E c \in Lookup(sync_header_map(r.headers), "connection") :
          \E head \in read_message_head(0, r.head_len) :
            /\ socket' = [socket EXCEPT !.wire = SubSeq(@, 2 + over, Len(@))]
            /\ IF head = "too_long" \/ RequestBodyTooLarge(cl)
               THEN /\ handler' = [handler EXCEPT
                                     !.pc = "exited", !.req = r, !.idle = 0,
                                     !.err = IF head = "too_long" THEN "head_too_long"
                                             ELSE "too_large"]
                    /\ answered' =
                          IF ReadErrorAnswer(socket.kind, handler.request_number,
                                             head # "too_long") = 0
                          THEN answered
                          ELSE Append(answered,
                                 [n |-> r.n,
                                  code |-> ReadErrorAnswer(socket.kind,
                                                           handler.request_number,
                                                           head # "too_long")])
               ELSE /\ handler' = [handler EXCEPT !.pc = "process", !.req = r, !.idle = 0,
                                      !.keep_alive = should_keep_alive(r.version, c)]
                    /\ UNCHANGED answered
    /\ UNCHANGED <<captured, nonConnectionVars>>

\* read_message_head sees the end of the stream: "connection closed before
\* headers completed", answered like any other read error
ReadEof ==
    /\ handler.pc = "read"
    /\ socket.wire = <<>>
    /\ socket.eof
    /\ handler' = [handler EXCEPT !.pc = "exited", !.err = "closed"]
    /\ answered' =
          IF ReadErrorAnswer(socket.kind, handler.request_number, FALSE) = 0
          THEN answered
          ELSE Append(answered,
                 [n |-> 0,
                  code |-> ReadErrorAnswer(socket.kind, handler.request_number, FALSE)])
    /\ UNCHANGED <<socket, captured, nonConnectionVars>>

\* time passes while the handler waits for a request.  handle_connection
\* wraps the read in a timeout of KEEP_ALIVE_TIMEOUT_SECS, so its wait
\* cannot last longer; the loop of intercept_tls_stream has no timeout.
IdleTick ==
    /\ handler.pc = "read"
    /\ socket.wire = <<>>
    /\ ~socket.eof
    /\ handler.idle <= KEEP_ALIVE_TIMEOUT_SECS
    /\ socket.kind = "plain" => handler.idle < KEEP_ALIVE_TIMEOUT_SECS
    /\ handler' = [handler EXCEPT !.idle = @ + 1]
    /\ UNCHANGED <<socket, captured, answered, nonConnectionVars>>

\* handle_connection, lines 352-356: the keep-alive timeout fires
KeepAliveTimeout ==
    /\ socket.kind = "plain"
    /\ handler.pc = "read"
    /\ socket.wire = <<>>
    /\ handler.idle = KEEP_ALIVE_TIMEOUT_SECS
    /\ handler' = [handler EXCEPT !.pc = "exited"]
    /\ UNCHANGED <<socket, captured, answered, nonConnectionVars>>

\* how process_request finds the end of the response it forwards: a
\* Content-Length within the capture cap, chunked transfer encoding, or
\* neither (stream_response_body copies until the upstream closes)
ResponseFramings == {"length", "chunked", "until_close"}

\* process_request called by the handler: the transaction is created with
\* connection_reused and published; Err ends the loop, and so does a
\* request that does not allow keep-alive
ProcessRequest ==
    /\ handler.pc = "process"
    /\ captured' = Append(captured,
                     [n |-> handler.req.n,
                      connection_reused |-> handler.request_number > 1])
    /\ \E ok \in BOOLEAN, framing \in ResponseFramings :
        /\ ~ok => framing = "length"
        /\ answered' = IF ok THEN Append(answered, [n |-> handler.req.n, code |-> 200,
                                                     framing |-> framing])
                       ELSE answered
        /\ handler' = IF ok /\ handler.keep_alive
                      THEN [handler EXCEPT !.pc = "read", !.request_number = @ + 1]
                      ELSE [handler EXCEPT !.pc = "exited"]
    /\ UNCHANGED <<socket, nonConnectionVars>>

\* C35: once a response whose end is marked only by the upstream closing
\* has been forwarded, the handler has left its loop (the client connection
\* is closed) and is not reading the next request of that connection.
C35_CloseDelimitedResponseCloses ==
    (/\ Len(answered) > 0
     /\ answered[Len(answered)].code = 200
     /\ answered[Len(answered)].framing = "until_close")
        => handler.pc # "read"

ConnectionNext ==
    \/ ClientSend
    \/ ClientClose
    \/ ReadRequest
    \/ ReadEof
    \/ IdleTick
    \/ KeepAliveTimeout
    \/ ProcessRequest

ConnectionSpec == ConnectionInit /\ [][ConnectionNext]_vars

---------------------------------------------------------------------------
\* C12: every request whose head declares a Content-Length over the request
\* cap is answered 413 Payload Too Large, on a plain or an intercepted
\* connection, as the first request or a later one.
C12_TooLargeAnswered413 ==
    handler.err = "too_large" =>
        \E i \in DOMAIN answered :
            answered[i].n = handler.req.n /\ answered[i].code = 413

\* C19: a handler waiting to read the next request, plain or intercepted,
\* has not waited longer than KEEP_ALIVE_TIMEOUT_SECS.
C19_IdleHandlerExits ==
    handler.pc = "read" => handler.idle <= KEEP_ALIVE_TIMEOUT_SECS

\* the requests the handler has taken off the connection and is done with
TakenOff ==
    {n \in 1..socket.nsent :
        /\ \A i \in DOMAIN socket.wire : socket.wire[i].n # n
        /\ ~(handler.pc = "process" /\ handler.req.n = n)}

---------------------------------------------------------------------------
(* Proxy lifecycle: start_proxy, stop_proxy, the server task start_proxy   *)
(* spawns (run_server, then the two stores that follow it) and the         *)
(* connection-handler tasks the accept loop spawns.                        *)

Spawned == {i \in 1..MaxStarts : server[i] # "none"}

\* start_proxy up to the spawn of the server task.  The flag is set before
\* init_transaction_store, whose failure returns Err with the flag set.
StartProxy ==
    /\ api.pc = "idle"
    /\ \/ /\ PROXY_RUNNING
          /\ api' = [api EXCEPT !.last = "start_ok"]
          /\ UNCHANGED <<PROXY_RUNNING, server>>
       \/ /\ ~PROXY_RUNNING
          /\ \E outcome \in {"no_port", "store_failed", "spawn"} :
               CASE outcome = "no_port" ->
                      /\ api' = [api EXCEPT !.last = "start_err"]
                      /\ UNCHANGED <<PROXY_RUNNING, server>>
                 [] outcome = "store_failed" ->
                      /\ PROXY_RUNNING' = TRUE
                      /\ api' = [api EXCEPT !.last = "start_err"]
                      /\ UNCHANGED server
                 [] outcome = "spawn" ->
                      /\ Cardinality(Spawned) < MaxStarts
                      /\ PROXY_RUNNING' = TRUE
                      /\ server' = [server EXCEPT ![Cardinality(Spawned) + 1] = "spawned"]
                      /\ api' = [api EXCEPT !.pc = "spawned"]
    /\ UNCHANGED <<ACTIVE_SERVER_TASK, handlers, nonLifecycleVars>>

\* start_proxy, lines 447-449: count the server task and return Ok(true)
StartProxyReturn ==
    /\ api.pc = "spawned"
    /\ ACTIVE_SERVER_TASK' = (ACTIVE_SERVER_TASK + 1) % CounterWrap
    /\ api' = [pc |-> "idle", last |-> "start_ok"]
    /\ UNCHANGED <<PROXY_RUNNING, server, handlers, nonLifecycleVars>>

\* stop_proxy, line 486: clear the flag, then poll the counter
StopProxy ==
    /\ api.pc = "idle"
    /\ PROXY_RUNNING' = FALSE
    /\ api' = [api EXCEPT !.pc = "stopping"]
    /\ UNCHANGED <<ACTIVE_SERVER_TASK, server, handlers, nonLifecycleVars>>

\* stop_proxy, lines 487-493: the counter was read as 0
StopProxyReturn ==
    /\ api.pc = "stopping"
    /\ ACTIVE_SERVER_TASK = 0
    /\ api' = [pc |-> "idle", last |-> "stop_ok"]
    /\ UNCHANGED <<PROXY_RUNNING, ACTIVE_SERVER_TASK, server, handlers, nonLifecycleVars>>

\* run_server up to its loop: the bind, the certificate manager or the TLS
\* client configuration may fail, which ends run_server with Err
RunServer(i) ==
    /\ server[i] = "spawned"
    /\ \E ok \in BOOLEAN :
        server' = [server EXCEPT ![i] = IF ok THEN "loop" ELSE "returned"]
    /\ UNCHANGED <<PROXY_RUNNING, ACTIVE_SERVER_TASK, handlers, api, nonLifecycleVars>>

\* run_server, lines 116-119: the loop reads the flag
LoopCheck(i) ==
    /\ server[i] = "loop"
    /\ server' = [server EXCEPT ![i] = IF PROXY_RUNNING THEN "accept" ELSE "returned"]
    /\ UNCHANGED <<PROXY_RUNNING, ACTIVE_SERVER_TASK, handlers, api, nonLifecycleVars>>

\* run_server, lines 126-153: a connection is accepted and its handler
\* task spawned, detached
Accept(i) ==
    /\ server[i] = "accept"
    /\ handlers < MaxHandlers
    /\ handlers' = handlers + 1
    /\ server' = [server EXCEPT ![i] = "loop"]
    /\ UNCHANGED <<PROXY_RUNNING, ACTIVE_SERVER_TASK, api, nonLifecycleVars>>

\* run_server, lines 154-158: accept failed or its 500 ms timeout passed
AcceptTimeout(i) ==
    /\ server[i] = "accept"
    /\ server' = [server EXCEPT ![i] = "loop"]
    /\ UNCHANGED <<PROXY_RUNNING, ACTIVE_SERVER_TASK, handlers, api, nonLifecycleVars>>

\* the server task after run_server, line 444: clear the flag
ServerClearsFlag(i) ==
    /\ server[i] = "returned"
    /\ PROXY_RUNNING' = FALSE
    /\ server' = [server EXCEPT ![i] = "cleared"]
    /\ UNCHANGED <<ACTIVE_SERVER_TASK, handlers, api, nonLifecycleVars>>

\* the server task, line 445: uncount itself and end
ServerExit(i) ==
    /\ server[i] = "cleared"
    /\ ACTIVE_SERVER_TASK' = (ACTIVE_SERVER_TASK + CounterWrap - 1) % CounterWrap
    /\ server' = [server EXCEPT ![i] = "exited"]
    /\ UNCHANGED <<PROXY_RUNNING, handlers, api, nonLifecycleVars>>

\* a connection handler ends (its client closed, or its read timed out)
HandlerExit ==
    /\ handlers > 0
    /\ handlers' = handlers - 1
    /\ UNCHANGED <<PROXY_RUNNING, ACTIVE_SERVER_TASK, server, api, nonLifecycleVars>>

LifecycleInit ==
    /\ RequestInit
    /\ ~h2_enabled
    /\ workload = "single"
    /\ ConnectionIdle
    /\ LifecycleIdle
    /\ DeliveryIdle
    /\ QueryIdle
    /\ CallsIdle

LifecycleNext ==
    \/ StartProxy
    \/ StartProxyReturn
    \/ StopProxy
    \/ StopProxyReturn
    \/ \E i \in 1..MaxStarts : RunServer(i)
    \/ \E i \in 1..MaxStarts : LoopCheck(i)
    \/ \E i \in 1..MaxStarts : Accept(i)
    \/ \E i \in 1..MaxStarts : AcceptTimeout(i)
    \/ \E i \in 1..MaxStarts : ServerClearsFlag(i)
    \/ \E i \in 1..MaxStarts : ServerExit(i)
    \/ HandlerExit

LifecycleSpec == LifecycleInit /\ [][LifecycleNext]_vars

\* the accept loop of some server task is running
AcceptLoopRunning == \E i \in 1..MaxStarts : server[i] \in {"loop", "accept"}

\* C13: when stop_proxy has returned, the accept loop has stopped and every
\* connection-handler task the listener spawned has exited.
C13_StopWaitsForHandlers ==
    api.pc = "idle" /\ api.last = "stop_ok" => ~AcceptLoopRunning /\ handlers = 0

\* C14: after start_proxy returned success the status reports running until
\* stop_proxy is called, and after stop_proxy returned it reports not running.
C14_StatusFollowsCalls ==
    /\ api.pc = "idle" /\ api.last = "start_ok" => PROXY_RUNNING
    /\ api.pc = "idle" /\ api.last = "stop_ok" => ~PROXY_RUNNING

---------------------------------------------------------------------------
(* Bodies of one exchange: what process_request writes to the upstream and *)
(* to the client, and what it keeps in the transaction record.             *)

Bytes(n) == [i \in 1..n |-> i]

Drop(q, n) == SubSeq(q, n + 1, Len(q))

\* the requests of RawRequests, and requests whose body is longer than the
\* capture cap, one for each way a request body reaches process_request
DeliveryRequests ==
    RawRequests \cup
    { [via |-> "h1", scheme |-> "http", method |-> "POST", path |-> "/normal",
       headers |-> <<H("Host", Host), H("Content-Length", "3")>>, body |-> <<1, 2, 3>>],
      [via |-> "h1", scheme |-> "http", method |-> "POST", path |-> "/normal",
       headers |-> <<H("Host", Host), H("Transfer-Encoding", "chunked")>>,
       body |-> <<1, 2, 3>>],
      [via |-> "h2", scheme |-> "https", method |-> "POST", path |-> "/normal",
       headers |-> <<>>, body |-> <<1, 2, 3>>] }

\* the Content-Length values a response head declares ("" = no such header)
DeclaredLengths == {"", "0", "1", "2", "3", "4"}

\* What an upstream sends: a head of raw_head bytes, then body, then it
\* closes.  prefix bytes of the body arrive together with the head
\* (ResponseHead.body_prefix).  A chunked body comes as the chunks of
\* Chunks below.
UpstreamResponses ==
    { [raw_head |-> h, content_length |-> cl, chunked |-> c, body |-> Bytes(n),
       split |-> k, prefix |-> j] :
         h \in 1..2, cl \in DeclaredLengths, c \in BOOLEAN, n \in 0..MaxBody,
         k \in 0..MaxBody, j \in 0..MaxBody }

WellFormed(u) ==
    /\ u.split <= Len(u.body)
    /\ u.prefix <= Len(u.body)
    /\ u.chunked => u.prefix = 0
    /\ ~u.chunked => u.split = 0

\* the chunks of a chunked body, before the terminating zero-size chunk
Chunks(u) ==
    SelectSeq(<<Take(u.body, u.split), Drop(u.body, u.split)>>, LAMBDA c : c # <<>>)

DeliveryInit ==
    /\ RequestInit
    /\ ~h2_enabled
    /\ workload = "single"
    /\ ConnectionIdle
    /\ LifecycleIdle
    /\ exchange \in {[pc |-> "request", raw |-> r, edit |-> e, response |-> u,
                      parsed |-> NoParsed, chunks |-> <<>>, captured |-> <<>>, total |-> 0] :
                        r \in DeliveryRequests, e \in Edits,
                        u \in {x \in UpstreamResponses : WellFormed(x)}}
    /\ record = NoRecord
    /\ relayed = NoRelayed
    /\ QueryIdle
    /\ CallsIdle

\* process_request before the connect: the request as it was read, then the
\* edit of a resumed breakpoint, applied and copied into the transaction
EditRequest ==
    /\ exchange.pc = "request"
    /\ \E p0 \in ParsedRequests(exchange.raw, 1) :
       \E order \in EditOrders(exchange.edit) :
         LET p == IF is_empty(exchange.edit) THEN p0
                  ELSE apply_edit(p0, exchange.edit, order)
             t == IF is_empty(exchange.edit) THEN NewTransaction(1, p0)
                  ELSE update_transaction_from_parsed(NewTransaction(1, p0), p)
         IN /\ exchange' = [exchange EXCEPT !.pc = "forward", !.parsed = p]
            /\ record' = [record EXCEPT !.request_body = t.request_body]
    /\ UNCHANGED <<relayed, nonDeliveryVars>>

\* process_request, lines 498-529: forward_request_to_upstream with a
\* BodyCapture of MAX_BODY_CAPTURE_BYTES, whose content becomes request_body
ForwardRequest ==
    /\ exchange.pc = "forward"
    /\ LET r == forward_request_to_upstream(exchange.parsed)
       IN /\ relayed' = [relayed EXCEPT !.request = r.body]
          /\ record' = [record EXCEPT !.request_body = capture_body(r.body),
                                      !.state = IF r.err = "" THEN @ ELSE "Failed"]
          /\ exchange' = [exchange EXCEPT !.pc = IF r.err = "" THEN "head" ELSE "done"]
    /\ UNCHANGED nonDeliveryVars

\* content_length of process_request, line 620; -1 stands for None
ResponseLength(u) == IF u.content_length = "" THEN -1 ELSE parse_usize(u.content_length)

\* should_stream of process_request, lines 650-654
should_stream(u) == ResponseLength(u) = -1 \/ ResponseLength(u) > MAX_BODY_CAPTURE_BYTES

\* process_request, lines 584-654: the response head is read and the way
\* the body is delivered chosen
ReadResponseHead ==
    /\ exchange.pc = "head"
    /\ exchange' = [exchange EXCEPT
                      !.pc = IF exchange.response.chunked THEN "chunked"
                             ELSE IF should_stream(exchange.response) THEN "stream"
                             ELSE "fixed",
                      !.chunks = IF exchange.response.chunked
                                 THEN Chunks(exchange.response) ELSE <<>>]
    /\ relayed' = [relayed EXCEPT !.head = IF exchange.response.chunked
                                           THEN exchange.response.raw_head ELSE @]
    /\ UNCHANGED <<record, nonDeliveryVars>>

\* forward_chunked_body, one turn of its loop for a chunk of data
ForwardChunk ==
    /\ exchange.pc = "chunked"
    /\ exchange.chunks # <<>>
    /\ LET chunk_data == Head(exchange.chunks)
           remaining == MAX_BODY_CAPTURE_BYTES - Len(exchange.captured)
       IN /\ relayed' = [relayed EXCEPT !.body = @ \o chunk_data]
          /\ exchange' = [exchange EXCEPT
                            !.chunks = Tail(@),
                            !.total = @ + Len(chunk_data),
                            !.captured =
                               IF Len(@) < MAX_BODY_CAPTURE_BYTES
                               THEN @ \o Take(chunk_data, remaining) ELSE @]
    /\ UNCHANGED <<record, nonDeliveryVars>>

\* forward_chunked_body at the zero-size chunk, then process_request,
\* lines 637-648
FinishChunked ==
    /\ exchange.pc = "chunked"
    /\ exchange.chunks = <<>>
    /\ record' = [record EXCEPT !.state = "Completed",
                                !.has_response_body = TRUE,
                                !.response_body = exchange.captured,
                                !.has_response_size = TRUE,
                                !.response_size = exchange.total]
    /\ exchange' = [exchange EXCEPT !.pc = "done"]
    /\ UNCHANGED <<relayed, nonDeliveryVars>>

\* process_request, lines 656-683: head and body_prefix are written, the
\* rest is copied until the upstream closes; no body is kept
StreamBody ==
    /\ exchange.pc = "stream"
    /\ LET u == exchange.response
           body_prefix == Take(u.body, u.prefix)
           streamed_bytes == Len(body_prefix) + Len(Drop(u.body, u.prefix))
       IN /\ relayed' = [relayed EXCEPT
                           !.head = u.raw_head,
                           !.body = body_prefix \o Drop(u.body, u.prefix)]
          /\ record' = [record EXCEPT
                          !.state = "Completed",
                          !.has_response_size = ResponseLength(u) # -1 \/ streamed_bytes > 0,
                          !.response_size = IF ResponseLength(u) # -1 THEN ResponseLength(u)
                                            ELSE streamed_bytes]
    /\ exchange' = [exchange EXCEPT !.pc = "done"]
    /\ UNCHANGED nonDeliveryVars

\* process_request, lines 685-720: a body of the declared length is read
\* whole, written after the head and kept up to the cap.  An upstream that
\* closes early fails read_exact_body, which returns Err.
FixedBody ==
    /\ exchange.pc = "fixed"
    /\ LET u == exchange.response
           expected_len == ResponseLength(u)
           body_prefix == Take(Take(u.body, u.prefix), expected_len)
           rest == Drop(u.body, u.prefix)
           need == expected_len - Len(body_prefix)
           body_bytes == body_prefix \o Take(rest, need)
       IN IF Len(rest) < need
          THEN UNCHANGED <<relayed, record>>
          ELSE /\ relayed' = [relayed EXCEPT !.head = u.raw_head, !.body = body_bytes]
               /\ record' = [record EXCEPT
                               !.state = "Completed",
                               !.has_response_body = TRUE,
                               !.response_body = Take(body_bytes, MAX_BODY_CAPTURE_BYTES),
                               !.has_response_size = TRUE,
                               !.response_size = u.raw_head + Len(body_bytes)]
    /\ exchange' = [exchange EXCEPT !.pc = "done"]
    /\ UNCHANGED nonDeliveryVars

DeliveryNext ==
    \/ EditRequest
    \/ ForwardRequest
    \/ ReadResponseHead
    \/ ForwardChunk
    \/ FinishChunked
    \/ StreamBody
    \/ FixedBody

DeliverySpec == DeliveryInit /\ [][DeliveryNext]_vars

\* C15: every request body and response body kept in the transaction record
\* is at most MAX_BODY_CAPTURE_BYTES long, whichever path produced it.
C15_StoredBodiesCapped ==
    /\ Len(record.request_body) <= MAX_BODY_CAPTURE_BYTES
    /\ Len(record.response_body) <= MAX_BODY_CAPTURE_BYTES

\* an exchange that forwarded more than the cap in both directions and kept
\* a cut body of each
C15_Witness ==
    /\ exchange.pc = "done"
    /\ record.state = "Completed"
    /\ Len(relayed.request) > MAX_BODY_CAPTURE_BYTES
    /\ Len(record.request_body) = MAX_BODY_CAPTURE_BYTES
    /\ Len(relayed.body) > MAX_BODY_CAPTURE_BYTES
    /\ Len(record.response_body) = MAX_BODY_CAPTURE_BYTES

\* C16: a Completed transaction records as its response size the number of
\* response body bytes written to the client.
C16_SizeIsBodyBytes ==
    record.state = "Completed" =>
        record.has_response_size /\ record.response_size = Len(relayed.body)

---------------------------------------------------------------------------
(* Paged queries of the durable log: query and query_with_time_range run   *)
(* SELECT ... ORDER BY started_at DESC LIMIT ? OFFSET ?.  The statement    *)
(* names no second sort key, so rows of equal started_at come in whatever  *)
(* order the engine produces for that execution.                           *)

\* the values of started_at
StartTimes == 1..2

Present == {id \in 1..MaxRows : rows[id] # 0}

\* the orders ORDER BY started_at DESC allows for the rows of S
Sorted(S) ==
    {q \in Orderings(S) : \A i \in 1..(Cardinality(S) - 1) : rows[q[i]] >= rows[q[i + 1]]}

\* LIMIT limit OFFSET offset
Slice(q, offset, limit) ==
    SubSeq(q, offset + 1, IF offset + limit < Len(q) THEN offset + limit ELSE Len(q))

\* what a paged SELECT over the rows of S may return, for the pages and the
\* page sizes asked for (start and end are kept for reference, 0 = none)
Pages(S, start, end) ==
    {[page |-> page, page_size |-> page_size, start |-> start, end |-> end,
      items |-> Slice(q, page * page_size, page_size)] :
        q \in Sorted(S), page \in 0..1, page_size \in 1..2}

\* the last result and the one before it
Latest(rs, r) == IF rs = <<>> THEN <<r>> ELSE <<rs[Len(rs)], r>>

\* add_transaction of a transaction that has no row yet; ids are taken in
\* order.  The table is filled first and queried afterwards, so that all
\* results are about one content of the table.
InsertRow ==
    /\ results = <<>>
    /\ Cardinality(Present) < MaxRows
    /\ \E started_at \in StartTimes :
         rows' = [rows EXCEPT ![Cardinality(Present) + 1] = started_at]
    /\ UNCHANGED <<results, nonQueryVars>>

\* query with the default filter
Query ==
    /\ \E r \in Pages(Present, 0, 0) : results' = Latest(results, r)
    /\ UNCHANGED <<rows, nonQueryVars>>

\* query_with_time_range with the default filter
QueryWithTimeRange ==
    /\ \E start_time_ms \in StartTimes : \E end_time_ms \in StartTimes :
         /\ start_time_ms <= end_time_ms
         /\ \E r \in Pages({id \in Present : /\ rows[id] >= start_time_ms
                                              /\ rows[id] <= end_time_ms},
                            start_time_ms, end_time_ms) :
              results' = Latest(results, r)
    /\ UNCHANGED <<rows, nonQueryVars>>

QueryInit ==
    /\ RequestInit
    /\ ~h2_enabled
    /\ workload = "single"
    /\ ConnectionIdle
    /\ LifecycleIdle
    /\ DeliveryIdle
    /\ QueryIdle
    /\ CallsIdle

QueryNext ==
    \/ InsertRow
    \/ Query
    \/ QueryWithTimeRange

QuerySpec == QueryInit /\ [][QueryNext]_vars

\* position of id in q, 0 when it is not there
IndexOf(q, id) == IF \E i \in DOMAIN q : q[i] = id
                  THEN CHOOSE i \in DOMAIN q : q[i] = id ELSE 0

\* two results are successive pages of one query
NextPage(a, b) ==
    /\ a.page_size = b.page_size
    /\ a.start = b.start
    /\ a.end = b.end
    /\ b.page = a.page + 1

\* C18: query and query_with_time_range return rows by started_at
\* descending, rows of equal started_at by id; two rows of equal started_at
\* come in the same relative order in every result; successive pages do not
\* repeat or skip a row.
C18_OrderedAndStablePages ==
    /\ \A r \in DOMAIN results : \A i \in 1..(Len(results[r].items) - 1) :
         LET a == results[r].items[i]
             b == results[r].items[i + 1]
         IN rows[a] > rows[b] \/ (rows[a] = rows[b] /\ a < b)
    /\ \A r, u \in DOMAIN results : \A a, b \in 1..MaxRows :
         /\ IndexOf(results[r].items, a) # 0 /\ IndexOf(results[r].items, b) # 0
         /\ IndexOf(results[u].items, a) # 0 /\ IndexOf(results[u].items, b) # 0
         => (IndexOf(results[r].items, a) < IndexOf(results[r].items, b)
               <=> IndexOf(results[u].items, a) < IndexOf(results[u].items, b))
    /\ \A r, u \in DOMAIN results :
         NextPage(results[r], results[u]) /\ results[r].page = 0 =>
           /\ \A i \in DOMAIN results[r].items : IndexOf(results[u].items, results[r].items[i]) = 0
           /\ LET matching == {id \in Present :
                                 results[r].start # 0 =>
                                      /\ rows[id] >= results[r].start
                                      /\ rows[id] <= results[r].end}
                  want == IF Cardinality(matching) < 2 * results[r].page_size
                          THEN Cardinality(matching) ELSE 2 * results[r].page_size
              IN Len(results[r].items) + Len(results[u].items) = want

---------------------------------------------------------------------------
\* C21: a request whose head is longer than MAX_HEADER_BYTES is rejected as
\* a parse failure and the client receives 400 Bad Request.
C21_LongHeadAnswered400 ==
    handler.req.head_len > MAX_HEADER_BYTES =>
        /\ handler.err = "head_too_long"
        /\ \E i \in DOMAIN answered :
             answered[i].n = handler.req.n /\ answered[i].code = 400

---------------------------------------------------------------------------
(* resume_breakpoint and abort_breakpoint calls that resolve refuses.  The *)
(* request state machine above has the calls that succeed.                 *)

\* resume_breakpoint or abort_breakpoint for a transaction that exists:
\* resolve returns an error and no event is emitted.  The entry records
\* whether Hit had been emitted and whether a decision had been delivered.
RefusedCall(id) ==
    /\ pc[id] # "start"
    /\ resolve(id) # "ok"
    /\ Len(refused[id]) < MaxRefused
    /\ \E call \in {"resume", "abort"} :
         refused' = [refused EXCEPT ![id] =
                       Append(@, [call |-> call, error |-> resolve(id),
                                  hit |-> \E i \in DOMAIN events[id] : events[id][i] = "Hit",
                                  decided |-> decision[id].delivered > 0])]
    /\ UNCHANGED <<requestVars, connectionVars, lifecycleVars, deliveryVars, queryVars,
                   callers, adds, clearing, lateVars>>

BreakpointInit == Init /\ workload = "single"

BreakpointNext ==
    \/ Next
    \/ \E id \in Tasks : RefusedCall(id)

BreakpointSpec == BreakpointInit /\ [][BreakpointNext]_vars

EventsOf(id, kind) == Cardinality({i \in DOMAIN events[id] : events[id][i] = kind})

\* the request task took its decision and left maybe_pause_request
Decided(id) == EventsOf(id, "Hit") > 0 /\ pc[id] \notin {"register", "waiting"}

C29_OneEventPerDecision ==
    \A id \in Tasks :
        /\ EventsOf(id, "Hit") <= 1
        /\ EventsOf(id, "Resumed") + EventsOf(id, "Aborted") <= decision[id].delivered
        /\ Decided(id) =>
             EventsOf(id, "Resumed") + EventsOf(id, "Aborted") = decision[id].delivered

---------------------------------------------------------------------------
(* the end of a request task *)

\* C24: when its request task has ended, a transaction that was published
\* (its first snapshots are Pending or Breakpointed) has a snapshot in a
\* terminal state, Completed or Failed, whether or not the writes to the
\* client succeeded.
C24_TerminalSnapshotAtEnd ==
    \A t \in Tasks :
        (pc[t] = "done" /\ Len(snaps[t]) > 0) =>
            \E i \in DOMAIN snaps[t] : snaps[t][i].tx.state \in {"Completed", "Failed"}

---------------------------------------------------------------------------
(* the pool and the connection drivers *)

\* C25: the pool holds the sender of a connection only while the driver task
\* of that connection runs: once the driver has terminated and removed the
\* origin's entry, the pool has no entry for that connection's sender.
C25_NoSenderOfEndedDriver ==
    pool.present => pool.id \in drivers

---------------------------------------------------------------------------
(* start_proxy after an error *)

\* C36: a get_h2_client that finds a pool entry older than the pool TTL
\* returns no sender (the request is not bridged over a pooled connection)
\* and leaves the pool without the entry.
C36_StaleEntryNotReturned ==
    [][\A t \in Tasks :
         (/\ pc[t] = "connect" /\ pc'[t] # "connect"
          /\ parsed[t].scheme = "https"
          /\ ~is_h2_blocklisted(blocklist, h2_enabled)
          /\ PoolEntryStale(pool))
            => (~conn'[t].pooled /\ ~pool'.present)]_vars

\* a lookup has found an entry older than the TTL and the task dials
C36_Witness ==
    \E t \in Tasks :
        blockedAt[t].stale /\ pc[t] = "dial" /\ ~conn[t].pooled /\ ~pool.present

\* a step that writes a blocklist entry (other than the clock ageing it)
BlocklistInsert ==
    /\ blocklist'.present
    /\ blocklist' # blocklist
    /\ ~(blocklist.present /\ blocklist'.age = blocklist.age + 1)

C26_ErrorLeavesNotRunning ==
    api.pc = "idle" /\ api.last = "start_err" => ~PROXY_RUNNING

---------------------------------------------------------------------------
(* start_proxy and stop_proxy called concurrently.  The calls are async    *)
(* functions that any number of tasks may run; each caller below goes      *)
(* through a call step by step, the server tasks being those above.        *)

Callers == 1..MaxCallers

\* start_proxy, lines 392-395: the flag is read; it returns Ok(true) when set
CallStart(c) ==
    /\ callers[c] = "idle"
    /\ callers' = [callers EXCEPT ![c] = IF PROXY_RUNNING THEN "idle" ELSE "porting"]
    /\ UNCHANGED <<lifecycleVars, requestVars, connectionVars, deliveryVars, queryVars,
                   refused, adds, clearing, lateVars>>

\* start_proxy, lines 397-447, after find_available_port was awaited: no
\* port (Err); or the flag is set and init_transaction_store fails (Err); or
\* the flag is set and the server task spawned
CallSpawn(c) ==
    /\ callers[c] = "porting"
    /\ \E outcome \in {"no_port", "store_failed", "spawn"} :
         CASE outcome = "no_port" ->
                /\ callers' = [callers EXCEPT ![c] = "idle"]
                /\ UNCHANGED <<PROXY_RUNNING, server>>
           [] outcome = "store_failed" ->
                /\ PROXY_RUNNING' = TRUE
                /\ callers' = [callers EXCEPT ![c] = "idle"]
                /\ UNCHANGED server
           [] outcome = "spawn" ->
                /\ Cardinality(Spawned) < MaxStarts
                /\ PROXY_RUNNING' = TRUE
                /\ server' = [server EXCEPT ![Cardinality(Spawned) + 1] = "spawned"]
                /\ callers' = [callers EXCEPT ![c] = "spawned"]
    /\ UNCHANGED <<ACTIVE_SERVER_TASK, handlers, api, requestVars, connectionVars,
                   deliveryVars, queryVars, refused, adds, clearing, lateVars>>

\* start_proxy, lines 447-449: count the server task and return Ok(true)
CallStartReturn(c) ==
    /\ callers[c] = "spawned"
    /\ ACTIVE_SERVER_TASK' = (ACTIVE_SERVER_TASK + 1) % CounterWrap
    /\ callers' = [callers EXCEPT ![c] = "idle"]
    /\ UNCHANGED <<PROXY_RUNNING, server, handlers, api, requestVars, connectionVars,
                   deliveryVars, queryVars, refused, adds, clearing, lateVars>>

\* stop_proxy, line 486: clear the flag, then poll the counter
CallStop(c) ==
    /\ callers[c] = "idle"
    /\ PROXY_RUNNING' = FALSE
    /\ callers' = [callers EXCEPT ![c] = "stopping"]
    /\ UNCHANGED <<ACTIVE_SERVER_TASK, server, handlers, api, requestVars, connectionVars,
                   deliveryVars, queryVars, refused, adds, clearing, lateVars>>

\* stop_proxy, lines 487-493: the counter was read as 0
CallStopReturn(c) ==
    /\ callers[c] = "stopping"
    /\ ACTIVE_SERVER_TASK = 0
    /\ callers' = [callers EXCEPT ![c] = "idle"]
    /\ UNCHANGED <<lifecycleVars, requestVars, connectionVars, deliveryVars, queryVars,
                   refused, adds, clearing, lateVars>>

ConcurrentNext ==
    \/ \E c \in Callers : CallStart(c)
    \/ \E c \in Callers : CallSpawn(c)
    \/ \E c \in Callers : CallStartReturn(c)
    \/ \E c \in Callers : CallStop(c)
    \/ \E c \in Callers : CallStopReturn(c)
    \/ \E i \in 1..MaxStarts : RunServer(i)
    \/ \E i \in 1..MaxStarts : LoopCheck(i)
    \/ \E i \in 1..MaxStarts : Accept(i)
    \/ \E i \in 1..MaxStarts : AcceptTimeout(i)
    \/ \E i \in 1..MaxStarts : ServerClearsFlag(i)
    \/ \E i \in 1..MaxStarts : ServerExit(i)
    \/ HandlerExit

ConcurrentSpec == LifecycleInit /\ [][ConcurrentNext]_vars

\* The runtime runs every spawned task and every caller that is inside a
\* call: a server task takes its next step (the accept wait ends after
\* 500 ms at the latest), a caller inside start_proxy goes on, and a
\* stop_proxy that polls reads the counter again every 50 ms; it is taken to
\* read a 0 whenever the counter is 0 again and again (strong fairness).
\* Nothing obliges anyone to call start_proxy or stop_proxy, nor a client
\* to connect or a handler to end.
ServerStep(i) ==
    \/ RunServer(i)
    \/ LoopCheck(i)
    \/ AcceptTimeout(i)
    \/ ServerClearsFlag(i)
    \/ ServerExit(i)

CallStep(c) ==
    \/ CallSpawn(c)
    \/ CallStartReturn(c)
    \/ CallStopReturn(c)

FairConcurrentSpec ==
    /\ ConcurrentSpec
    /\ \A i \in 1..MaxStarts : WF_vars(ServerStep(i))
    /\ \A c \in Callers : SF_vars(CallStep(c))

\* the accept loops that are live
LiveLoops == {i \in 1..MaxStarts : server[i] \in {"loop", "accept"}}

\* C27: at most one accept loop is live at any time, whatever the callers do.
C27_OneAcceptLoop == Cardinality(LiveLoops) <= 1

\* C28: every stop_proxy call returns.
C28_StopReturns ==
    \A c \in Callers : (callers[c] = "stopping") ~> (callers[c] = "idle")

---------------------------------------------------------------------------
(* add_transaction and clear_all on one TransactionStore.  Each takes the  *)
(* ring's lock and the database's lock one after the other, so calls of    *)
(* different tasks interleave between the two.                             *)

\* the snapshots a task stores: its transaction, pending or completed
AddedSnapshots(a) ==
    { [NoTx EXCEPT !.id = a, !.state = st, !.method = "GET", !.path = "/"] :
        st \in {"Pending", "Completed"} }

\* add_transaction, lines 100-106: the ring part
AddRing(a) ==
    /\ adds[a].pc = "idle"
    /\ adds[a].n < MaxAdds
    /\ \E x \in AddedSnapshots(a) :
        /\ ring' = RingPush(ring, x)
        /\ adds' = [adds EXCEPT ![a] = [pc |-> "pushed", tx |-> x, n |-> @.n + 1]]
        /\ added' = Append(added, x)
    /\ UNCHANGED <<pc, parsed, received, tx, snaps, connVars, clientResp, bpVars,
                   db, lastPersist, bridge, pool,
                   drivers, blocklist, h2_enabled, workload, connectionVars, lifecycleVars,
                   deliveryVars, queryVars, refused, callers, clearing, lateBut_added>>

\* add_transaction, lines 108-126: the durable part
AddDb(a) ==
    /\ adds[a].pc = "pushed"
    /\ db' = DbUpsert(db, adds[a].tx)
    /\ adds' = [adds EXCEPT ![a].pc = "idle"]
    /\ UNCHANGED <<pc, parsed, received, tx, snaps, connVars, clientResp, bpVars,
                   ring, lastPersist, bridge, pool,
                   drivers, blocklist, h2_enabled, workload, connectionVars, lifecycleVars,
                   deliveryVars, queryVars, refused, callers, clearing, lateVars>>

\* clear_all, lines 486-489: the ring is emptied
ClearRing ==
    /\ clearing = "idle"
    /\ ring' = <<>>
    /\ clearing' = "ring_cleared"
    /\ UNCHANGED <<pc, parsed, received, tx, snaps, connVars, clientResp, bpVars,
                   db, lastPersist, bridge, pool,
                   drivers, blocklist, h2_enabled, workload, connectionVars, lifecycleVars,
                   deliveryVars, queryVars, refused, callers, adds, lateVars>>

\* clear_all, lines 491-502: DELETE FROM transactions, and the call returns
ClearDb ==
    /\ clearing = "ring_cleared"
    /\ db' = [id \in DOMAIN db |-> NoRow]
    /\ clearing' = "done"
    /\ UNCHANGED <<pc, parsed, received, tx, snaps, connVars, clientResp, bpVars,
                   ring, lastPersist, bridge, pool,
                   drivers, blocklist, h2_enabled, workload, connectionVars, lifecycleVars,
                   deliveryVars, queryVars, refused, callers, adds, lateVars>>

ClearNext ==
    \/ \E a \in Tasks : AddRing(a)
    \/ \E a \in Tasks : AddDb(a)
    \/ ClearRing
    \/ ClearDb

ClearSpec == LifecycleInit /\ [][ClearNext]_vars

\* the ids of the transactions in the ring, and those in the durable log
RingIds == {ring[i].id : i \in DOMAIN ring}

DbIds == {id \in DOMAIN db : db[id].present}

\* C30: once clear_all has completed, and every add_transaction that
\* overlapped it has returned, the ring and the durable log hold the same
\* transactions.
C30_LayersAgreeAfterClear ==
    (clearing = "done" /\ \A a \in Tasks : adds[a].pc = "idle") => RingIds = DbIds

---------------------------------------------------------------------------
(* the ring and the durable log under add_transaction alone *)

\* the variables of the parts modelled before the last ones
earlyVars ==
    <<refused, callers, adds, clearing, requestVars, connectionVars, lifecycleVars,
      deliveryVars, queryVars>>

AddNext ==
    \/ \E a \in Tasks : AddRing(a)
    \/ \E a \in Tasks : AddDb(a)

AddSpec == LifecycleInit /\ [][AddNext]_vars

\* the last n elements of a sequence
Newest(q, n) == IF Len(q) <= n THEN q ELSE SubSeq(q, Len(q) - n + 1, Len(q))

\* the last snapshot of an id that was added
LastAdded(id) ==
    added[CHOOSE i \in DOMAIN added :
            added[i].id = id /\ \A j \in DOMAIN added : added[j].id = id => j <= i]

\* the add_transaction call that pushed added[i] has returned
Returned(i) == adds[added[i].id].pc = "idle" \/ added[i] # adds[added[i].id].tx
               \/ \E j \in DOMAIN added : j > i /\ added[j].id = added[i].id

\* C31: the ring holds at most max_len entries, which are the most recently
\* added transactions in the order they were added, and the durable log has
\* a row for every transaction whose add_transaction returned: the row of
\* an id holds the last snapshot added under it.
C31_RingKeepsNewest ==
    /\ Len(ring) <= DEFAULT_RING_SIZE
    /\ ring = Newest(added, DEFAULT_RING_SIZE)
    /\ \A i \in DOMAIN added : Returned(i) => db[added[i].id].present
    /\ \A a \in Tasks :
         (adds[a].pc = "idle" /\ adds[a].n > 0) => db[a].data = LastAdded(a)

\* more transactions were added than the ring holds, and all adds returned
C31_Witness ==
    /\ Len(added) > DEFAULT_RING_SIZE
    /\ Len(ring) = DEFAULT_RING_SIZE
    /\ \A a \in Tasks : adds[a].pc = "idle"
    /\ \A a \in Tasks : db[a].present

---------------------------------------------------------------------------
(* TimingHandle: the request task and the bridge task record the phases of *)
(* one request, and the request task takes snapshots of the handle.        *)

Phases == {"send", "waiting", "download"}

Writers == {"request", "bridge"}

\* record_send, record_waiting, record_download, first half: the flag is
\* swapped to true; the caller that read false goes on to store the value
swap(t, w, p) ==
    [t EXCEPT !.phase[p].recorded = TRUE,
              !.writer[w] = [pc |-> IF t.phase[p].recorded THEN "idle" ELSE "swapped",
                             phase |-> p]]

\* a task calls record_<phase>
RecordSwap(w, p) ==
    /\ timing.writer[w].pc = "idle"
    /\ timing' = swap(timing, w, p)
    /\ UNCHANGED <<earlyVars, lateBut_timing>>

\* second half: the elapsed milliseconds are stored
RecordStore(w) ==
    /\ timing.writer[w].pc = "swapped"
    /\ timing' = [timing EXCEPT !.phase[timing.writer[w].phase].ms = timing.clock,
                                !.writer[w].pc = "idle"]
    /\ UNCHANGED <<earlyVars, lateBut_timing>>

\* TimingHandle::snapshot: a phase is Some(ms) when its flag is set
snapshot(t) ==
    [p \in Phases |-> IF t.phase[p].recorded
                      THEN [some |-> TRUE, ms |-> t.phase[p].ms]
                      ELSE [some |-> FALSE, ms |-> 0]]

\* apply_timing_handle, called by the request task for the snapshots of the
\* transaction it publishes
ApplyTimingHandle ==
    /\ Len(timing.seen) < MaxSnapshots
    /\ timing.writer["request"].pc = "idle"
    /\ timing' = [timing EXCEPT !.seen = Append(@, snapshot(timing))]
    /\ UNCHANGED <<earlyVars, lateBut_timing>>

\* a millisecond passes
ClockTick ==
    /\ timing.clock < MaxClock
    /\ timing' = [timing EXCEPT !.clock = @ + 1]
    /\ UNCHANGED <<earlyVars, lateBut_timing>>

TimingNext ==
    \/ \E w \in Writers : \E p \in Phases : RecordSwap(w, p)
    \/ \E w \in Writers : RecordStore(w)
    \/ ApplyTimingHandle
    \/ ClockTick

TimingSpec == LifecycleInit /\ [][TimingNext]_vars

\* C32: every snapshot that reports a phase as recorded reports the same
\* value for it, the one value recorded for the phase.
C32_OneValuePerPhase ==
    \A p \in Phases : \A i, j \in DOMAIN timing.seen :
        (timing.seen[i][p].some /\ timing.seen[j][p].some) =>
            timing.seen[i][p].ms = timing.seen[j][p].ms

---------------------------------------------------------------------------
(* websocket_tunnel, one direction.  A frame on the wire is two header     *)
(* bytes, the opcode and the payload length, and the payload; lengths are  *)
(* small, so the header has neither extended length nor mask.              *)

\* WebSocketOpcode::from_u8: the opcodes it knows
KnownOpcodes == {0, 1, 2, 8, 9, 10}

\* the frames a peer may send: a text frame or a frame with the reserved
\* opcode 3, with no payload or one payload byte
Frames == { [opcode |-> o, payload |-> pl] : o \in {1, 3}, pl \in {<<>>, <<1>>} }

\* the wires: one to MaxFrames frames
Wires == UNION { [1..n -> Frames] : n \in 1..MaxFrames }

\* the bytes of a frame
FrameBytes(f) == <<f.opcode, Len(f.payload)>> \o f.payload

RECURSIVE WireBytes(_)
WireBytes(fs) == IF fs = <<>> THEN <<>> ELSE FrameBytes(Head(fs)) \o WireBytes(Tail(fs))

\* the offset at which frame i of the wire ends
RECURSIVE FrameEnd(_, _)
FrameEnd(fs, i) == IF i = 0 THEN 0 ELSE FrameEnd(fs, i - 1) + Len(FrameBytes(fs[i]))

\* parse_frame_header: None for fewer than two bytes and for an unknown opcode
parse_frame_header(data) ==
    IF Len(data) < 2 THEN [some |-> FALSE, opcode |-> 0, payload_len |-> 0, header_len |-> 0]
    ELSE IF data[1] \notin KnownOpcodes
    THEN [some |-> FALSE, opcode |-> 0, payload_len |-> 0, header_len |-> 0]
    ELSE [some |-> TRUE, opcode |-> data[1], payload_len |-> data[2], header_len |-> 2]

\* extract_message: the message of the frame at the start of data and the
\* bytes it takes, or None
extract_message(data) ==
    LET header == parse_frame_header(data)
        total_len == header.header_len + header.payload_len
    IN IF ~header.some \/ Len(data) < total_len
       THEN [some |-> FALSE, msg |-> [opcode |-> 0, payload |-> <<>>], consumed |-> 0]
       ELSE [some |-> TRUE,
             msg |-> [opcode |-> header.opcode,
                      payload |-> SubSeq(data, header.header_len + 1, total_len)],
             consumed |-> total_len]

\* the loop `while let Some((msg, consumed)) = extract_message(...)`: the
\* messages stored and what stays in the accumulation buffer
RECURSIVE Drain(_, _)
Drain(data, out) ==
    LET r == extract_message(data)
    IN IF r.some
       THEN Drain(SubSeq(data, r.consumed + 1, Len(data)), Append(out, r.msg))
       ELSE [pending |-> data, emitted |-> out]

\* process_request, lines 587-617: the 101 response head is forwarded with
\* the bytes the upstream sent right behind it (body_prefix), then the
\* tunnel starts with empty accumulation buffers.  The client sends its
\* frames after it got the response.
TunnelOpen ==
    /\ ~tunnel.open /\ ~tunnel.closed
    /\ \E dir \in {"ClientToServer", "ServerToClient"} : \E fs \in Wires :
       \E prefix \in 0..Len(WireBytes(fs)) :
        /\ dir = "ClientToServer" => prefix = 0
        /\ tunnel' = [open |-> TRUE, closed |-> FALSE, dir |-> dir, frames |-> fs,
                      forwarded |-> prefix, pending |-> <<>>, emitted |-> <<>>]
    /\ UNCHANGED <<earlyVars, lateBut_tunnel>>

\* websocket_tunnel, one read of n bytes: they are written to the other
\* peer, appended to the accumulation buffer, and the complete frames at the
\* start of the buffer are stored
TunnelRead ==
    /\ tunnel.open
    /\ \E n \in 1..(Len(WireBytes(tunnel.frames)) - tunnel.forwarded) :
        LET data == SubSeq(WireBytes(tunnel.frames), tunnel.forwarded + 1,
                           tunnel.forwarded + n)
            r == Drain(tunnel.pending \o data, tunnel.emitted)
        IN tunnel' = [tunnel EXCEPT !.forwarded = @ + n,
                                    !.pending = r.pending,
                                    !.emitted = r.emitted]
    /\ UNCHANGED <<earlyVars, lateBut_tunnel>>

\* a read returns 0 or an error: the tunnel ends
TunnelClose ==
    /\ tunnel.open
    /\ tunnel' = [tunnel EXCEPT !.open = FALSE, !.closed = TRUE]
    /\ UNCHANGED <<earlyVars, lateBut_tunnel>>

TunnelNext ==
    \/ TunnelOpen
    \/ TunnelRead
    \/ TunnelClose

TunnelSpec == LifecycleInit /\ [][TunnelNext]_vars

\* the messages of the frames whose bytes were all forwarded, in wire order
ForwardedMessages ==
    [i \in {k \in DOMAIN tunnel.frames : FrameEnd(tunnel.frames, k) <= tunnel.forwarded}
       |-> tunnel.frames[i]]

\* C33: while the tunnel runs, the messages stored for a direction are the
\* complete frames forwarded in it, one message per frame, in wire order.
C33_EveryFrameStored ==
    tunnel.open => tunnel.emitted = ForwardedMessages

---------------------------------------------------------------------------
(* prune_older_than and the lookups *)

AgedIds == {id \in 1..MaxRows : aged.table[id].present \/ \E i \in DOMAIN aged.ring : aged.ring[i].id = id}

\* add_transaction of a new transaction, before the prune
AgedAdd ==
    /\ aged.cutoff = 0
    /\ Cardinality(AgedIds) < MaxRows
    /\ \E started_at \in StartTimes :
        LET x == [id |-> Cardinality(AgedIds) + 1, started_at |-> started_at]
        IN aged' = [aged EXCEPT !.ring = RingPush(@, x),
                                !.table[x.id] = [present |-> TRUE, data |-> x]]
    /\ UNCHANGED <<earlyVars, lateBut_aged>>

\* prune_older_than: DELETE FROM transactions WHERE started_at < cutoff
PruneOlderThan ==
    /\ aged.cutoff = 0
    /\ \E cutoff_ms \in 1..3 :
        aged' = [aged EXCEPT
                   !.table = [id \in DOMAIN @ |->
                                IF @[id].present /\ @[id].data.started_at < cutoff_ms
                                THEN [@[id] EXCEPT !.present = FALSE] ELSE @[id]],
                   !.cutoff = cutoff_ms,
                   !.got = {}]
    /\ UNCHANGED <<earlyVars, lateBut_aged>>

\* get_by_id
AgedGetById ==
    /\ \E id \in 1..MaxRows :
        LET r == get_by_id(aged.ring, aged.table, id)
        IN /\ r.found
           /\ aged' = [aged EXCEPT !.got = {r.tx}]
    /\ UNCHANGED <<earlyVars, lateBut_aged>>

\* list with the default filter: SELECT data FROM transactions
AgedList ==
    /\ aged' = [aged EXCEPT !.got = {aged.table[id].data :
                                       id \in {i \in 1..MaxRows : aged.table[i].present}}]
    /\ UNCHANGED <<earlyVars, lateBut_aged>>

PruneNext ==
    \/ AgedAdd
    \/ PruneOlderThan
    \/ AgedGetById
    \/ AgedList

PruneSpec == LifecycleInit /\ [][PruneNext]_vars

\* C34: after prune_older_than, no lookup returns a transaction that
\* started before the cutoff.
C34_NoLookupBelowCutoff ==
    aged.cutoff > 0 => \A x \in aged.got : x.started_at >= aged.cutoff

---------------------------------------------------------------------------
(* Cancellation of a breakpoint rendezvous: wait_for_decision registers a  *)
(* oneshot sender under the transaction id and awaits the receiver; the    *)
(* sender may be dropped undelivered, and the awaiting task may be dropped *)
(* while it waits.                                                         *)

\* wait_for_decision up to the await: the sender is inserted into pending
WaitRegister(id) ==
    /\ waits[id].waiter = "idle"
    /\ waits' = [waits EXCEPT ![id].waiter = "waiting", ![id].entry = TRUE,
                              ![id].channel = "open"]
    /\ UNCHANGED <<earlyVars, lateBut_waits>>

\* the sender leaves pending without a decision having been sent
\* (pending.clear())
SenderDropped(id) ==
    /\ waits[id].entry /\ waits[id].channel = "open"
    /\ waits' = [waits EXCEPT ![id].entry = FALSE, ![id].channel = "dropped"]
    /\ UNCHANGED <<earlyVars, lateBut_waits>>

\* wait_for_decision after the await: a decision is returned; a closed
\* channel gives the error "breakpoint cancelled" after the entry of the
\* id was removed from pending
WaitWake(id) ==
    /\ waits[id].waiter = "waiting"
    /\ waits[id].channel \in {"sent", "dropped"}
    /\ waits' = IF waits[id].channel = "sent"
                THEN [waits EXCEPT ![id].waiter = "decided"]
                ELSE [waits EXCEPT ![id].waiter = "breakpoint cancelled",
                                   ![id].entry = FALSE]
    /\ UNCHANGED <<earlyVars, lateBut_waits>>

\* the task awaiting the receiver is dropped: the future of
\* wait_for_decision ends at its await, and the receiver with it
WaiterGone(id) ==
    /\ waits[id].waiter = "waiting"
    /\ waits' = [waits EXCEPT ![id].waiter = "gone"]
    /\ UNCHANGED <<earlyVars, lateBut_waits>>

\* resolve: the entry is removed and the decision sent, which fails if the
\* receiver is gone; without an entry the call is refused
ResolveCall(id) ==
    /\ waits' = IF ~waits[id].entry
                THEN [waits EXCEPT ![id].call = "No pending breakpoint"]
                ELSE IF waits[id].waiter = "gone"
                THEN [waits EXCEPT ![id].entry = FALSE, ![id].channel = "dropped",
                                   ![id].call = "Breakpoint consumer dropped"]
                ELSE [waits EXCEPT ![id].entry = FALSE, ![id].channel = "sent",
                                   ![id].call = "ok"]
    /\ waits' # waits
    /\ UNCHANGED <<earlyVars, lateBut_waits>>

CancelNext ==
    \E id \in Tasks :
        \/ WaitRegister(id)
        \/ SenderDropped(id)
        \/ WaitWake(id)
        \/ WaiterGone(id)
        \/ ResolveCall(id)

CancelSpec == LifecycleInit /\ [][CancelNext]_vars

\* C38: once a rendezvous is cancelled, by the sender having been dropped
\* without a decision and the waiting task having seen the error, or by the
\* waiting task having gone away, pending holds no entry for the id.
C38_CancelledLeavesNoEntry ==
    \A id \in Tasks :
        waits[id].waiter \in {"breakpoint cancelled", "gone"} => ~waits[id].entry

---------------------------------------------------------------------------
(* CertManager::new on one storage path. A Root CA is named by the call    *)
(* that generated it; each file holds the part of one CA or is absent.     *)

Inits == 1..MaxInits

\* the exists() test of both files; the else branch generates a new root
\* in memory
NewCheck(i) ==
    /\ ca.init[i].pc = "idle"
    /\ ca' = IF ca.cert # 0 /\ ca.key # 0
             THEN [ca EXCEPT !.init[i].pc = "read_cert"]
             ELSE [ca EXCEPT !.init[i] = [pc |-> "write_cert", cert |-> i, key |-> i]]
    /\ UNCHANGED <<earlyVars, lateBut_ca>>

\* fs::read_to_string of the certificate file
NewReadCert(i) ==
    /\ ca.init[i].pc = "read_cert"
    /\ ca' = [ca EXCEPT !.init[i].pc = "read_key", !.init[i].cert = ca.cert]
    /\ UNCHANGED <<earlyVars, lateBut_ca>>

\* fs::read_to_string of the key file; the manager is built from the two
NewReadKey(i) ==
    /\ ca.init[i].pc = "read_key"
    /\ ca' = [ca EXCEPT !.init[i].pc = "done", !.init[i].key = ca.key]
    /\ UNCHANGED <<earlyVars, lateBut_ca>>

\* fs::write of the certificate file
NewWriteCert(i) ==
    /\ ca.init[i].pc = "write_cert"
    /\ ca' = [ca EXCEPT !.init[i].pc = "write_key", !.cert = ca.init[i].cert]
    /\ UNCHANGED <<earlyVars, lateBut_ca>>

\* fs::write of the key file; the manager is built from the generated root
NewWriteKey(i) ==
    /\ ca.init[i].pc = "write_key"
    /\ ca' = [ca EXCEPT !.init[i].pc = "done", !.key = ca.init[i].key]
    /\ UNCHANGED <<earlyVars, lateBut_ca>>

CaNext ==
    \E i \in Inits :
        \/ NewCheck(i)
        \/ NewReadCert(i)
        \/ NewReadKey(i)
        \/ NewWriteCert(i)
        \/ NewWriteKey(i)

CaSpec == LifecycleInit /\ [][CaNext]_vars

\* the calls that have returned their manager
Initialized == {i \in Inits : ca.init[i].pc = "done"}

\* C39: all the managers built for one storage path hold the same Root CA,
\* its certificate and its key being of one pair, and it is the CA the
\* two files hold.
C39_OneRootPerPath ==
    /\ \A i, j \in Initialized :
         /\ ca.init[i].cert = ca.init[i].key
         /\ ca.init[i].cert = ca.init[j].cert
    /\ \A i \in Initialized : ca.cert = ca.init[i].cert /\ ca.key = ca.init[i].key

---------------------------------------------------------------------------
(* ServerConfigCache: a map from key to server config and a queue of the   *)
(* keys, least recently used first.                                        *)

\* host names as clients send them
Hosts == {"a", "A", "b", "B", "c"}

to_ascii_lowercase(h) == IF h = "A" THEN "a" ELSE IF h = "B" THEN "b" ELSE h

\* the elements of a sequence
Elements(q) == {q[i] : i \in DOMAIN q}

\* the sequence without the occurrences of key
Without(q, key) == SelectSeq(q, LAMBDA k : k # key)

\* a promote that leaves a key of the queue where it is
promote_new(order, key) == IF key \in Elements(order) THEN order ELSE Append(order, key)

\* promote: the key is taken out of the queue and pushed at its back
promote(order, key) == Append(Without(order, key), key)

\* evict: keys are popped from the front while the queue is longer than
\* the capacity, and removed from the map
RECURSIVE evict(_)
evict(c) ==
    IF Len(c.order) > MAX_SERVER_CONFIG_CACHE
    THEN evict([c EXCEPT !.order = Tail(@), !.map = @ \ {Head(c.order)}])
    ELSE c

\* ServerConfigCache::get (a hit promotes) and ::insert
cache_get(c, key) == IF key \in c.map THEN [c EXCEPT !.order = promote(@, key)] ELSE c

cache_insert(c, key) == evict([c EXCEPT !.map = @ \cup {key}, !.order = promote(@, key)])

\* server_config_for_host: the cache is read under the lower-cased host,
\* and on a miss a leaf is issued and inserted
ServerConfigForHost(host) ==
    /\ Len(cache.uses) < MaxUses
    /\ LET cache_key == to_ascii_lowercase(host)
           c == IF cache_key \in cache.map
                THEN cache_get(cache, cache_key)
                ELSE cache_insert(cache, cache_key)
       IN cache' = [c EXCEPT !.uses = Append(@, host)]
    /\ UNCHANGED <<earlyVars, lateBut_cache>>

CacheNext == \E host \in Hosts : ServerConfigForHost(host)

CacheSpec == LifecycleInit /\ [][CacheNext]_vars

\* the lower-cased hosts of a sequence of calls, each once, in the order
\* of their last use
RECURSIVE Recency(_)
Recency(u) ==
    IF u = <<>> THEN <<>>
    ELSE LET k == to_ascii_lowercase(u[Len(u)])
         IN Append(Without(Recency(SubSeq(u, 1, Len(u) - 1)), k), k)

\* the last n elements of a sequence
LastOf(q, n) == SubSeq(q, Len(q) - n + 1, Len(q))

\* C40: the cache never holds more entries than its capacity, its keys are
\* lower-cased hosts, and what it holds are the most recently used keys
\* (read or written), so that an eviction takes the least recently used.
C40_BoundedLru ==
    LET r == Recency(cache.uses)
        n == IF Len(r) < MAX_SERVER_CONFIG_CACHE THEN Len(r) ELSE MAX_SERVER_CONFIG_CACHE
    IN /\ Cardinality(cache.map) <= MAX_SERVER_CONFIG_CACHE
       /\ \A k \in cache.map : to_ascii_lowercase(k) = k
       /\ cache.map = Elements(cache.order)
       /\ cache.order = LastOf(r, n)

\* "a" was read again under another case before "c" came in: "b", not
\* "a", was evicted
C40_Witness ==
    /\ cache.uses = <<"a", "B", "A", "c">>
    /\ cache.order = <<"a", "c">>
    /\ cache.map = {"a", "c"}

====
